---------------------------- MODULE Spec2Model ----------------------------
(***************************************************************************)
(* A model of the graph engine of the forge-graph tools:                   *)
(*   - forge-graph-viewer (src/rust-projects/forge-graph-viewer/src/main.rs)*)
(*     parse_vault, ForgeGraphViewer::{new, apply_forces, recenter_view,   *)
(*     screen_to_world, world_to_screen, extract_ego_network,              *)
(*     reset_to_full_graph, update};                                       *)
(*   - forge-graph CLI (src/rust-projects/forge-graph/src/main.rs)         *)
(*     VaultGraph::{parse_vault, find_orphans, generate_html_viz}.         *)
(*                                                                         *)
(* Numbers.  The code computes in f32/f64.  The model computes in decimal  *)
(* fixed point: an integer v stands for v / Scale, every product, quotient *)
(* and square root is rounded to the nearest multiple of 1 / Scale (halves *)
(* away from zero), sums are exact.  +inf and NaN, which recenter_view     *)
(* produces on degenerate bounding boxes, are the values PosInf and NaN.   *)
(*                                                                         *)
(* Indices are zero-based as in the code; At(s, i) reads the element of    *)
(* index i of a Vec modelled as a TLA+ sequence.  Option<usize> is a       *)
(* sequence of length at most one: None is << >>, Some(i) is << i >>.      *)
(*                                                                         *)
(* Iteration orders of HashMap / HashSet are unspecified in Rust: the      *)
(* order of notes.keys() is the input `keys`, the order of a note's links  *)
(* is the order of its links sequence, and the order in which              *)
(* extract_ego_network enumerates nodes_to_include is chosen freely.       *)
(***************************************************************************)
EXTENDS Integers, Sequences, FiniteSets, TLC

VARIABLES
    notes,               \* parse_vault: HashMap<String, Note>, name -> links (Vec<String>)
    keys,                \* the iteration order of notes.keys() / notes.values()
    graph,               \* ForgeGraphViewer.graph (the active graph)
    full_graph,          \* ForgeGraphViewer.full_graph
    camera_pos,          \* ForgeGraphViewer.camera_pos
    zoom,                \* ForgeGraphViewer.zoom
    dragging,            \* ForgeGraphViewer.dragging
    drag_start,          \* ForgeGraphViewer.drag_start
    selected_node,       \* ForgeGraphViewer.selected_node
    filter_orphans,      \* ForgeGraphViewer.filter_orphans
    velocities,          \* ForgeGraphViewer.velocities
    simulation_running,  \* ForgeGraphViewer.simulation_running
    ego_mode,            \* ForgeGraphViewer.ego_mode
    last,                \* history: the last operation, its inputs and locals
    budget,              \* history: input events still allowed, per kind
    out                  \* result of the last pure-function / CLI call

vars == << notes, keys, graph, full_graph, camera_pos, zoom, dragging, drag_start,
           selected_node, filter_orphans, velocities, simulation_running, ego_mode,
           last, budget, out >>

-----------------------------------------------------------------------------
(* Bounds of the model *)

\* BuildSpec: the largest number of links of one note
MaxLinks == 2
\* Spec: the number of scroll and drag frames of one run
MaxCamOps == 1
\* SimSpec: the number of simulation ticks of one run
MaxTicks == 3
\* EgoSpec: the largest hop radius asked of extract_ego_network
MaxHops == 2
\* EgoSpec: the largest number of edges of a drawn full graph
MaxEdges == 3
\* ViewSpec: the points of the round trips take every coordinate within MaxCoord
\* steps (of 1 / Scale) of zero
MaxCoord == 3
\* PointerSpec: the number of wheel, drag, click and fit-to-view frames of one run
MaxPointerOps == 3

\* SimSpec: the number of camera frames (wheel, drag, fit-to-view) of one run
MaxSimCamOps == 2
\* ScanSpec: the largest number of characters between [[ and ]]
MaxTarget == 3

-----------------------------------------------------------------------------
(* Fixed-point arithmetic *)

\* one unit is 1 / Scale
Scale == 10 * 10

Abs(a) == IF a < 0 THEN -a ELSE a
Sgn(a) == IF a < 0 THEN -1 ELSE IF a > 0 THEN 1 ELSE 0
Min(a, b) == IF a <= b THEN a ELSE b
Max(a, b) == IF a >= b THEN a ELSE b

\* n / d rounded to the nearest integer, halves away from zero (d # 0)
RoundDiv(n, d) == Sgn(n) * Sgn(d) * ((2 * Abs(n) + Abs(d)) \div (2 * Abs(d)))

\* +inf and NaN of IEEE arithmetic, outside the range of every finite value
PosInf == 2000 * 1000 * 1000
NaN == PosInf + 1

\* a + b and a - b; NaN is absorbing
FAdd(a, b) == IF a = NaN \/ b = NaN THEN NaN ELSE a + b
FSub(a, b) == IF a = NaN \/ b = NaN THEN NaN ELSE a - b
\* a * b
FMul(a, b) == IF a = NaN \/ b = NaN THEN NaN ELSE RoundDiv(a * b, Scale)
\* a / b; x / 0 is +inf for x > 0 as in IEEE arithmetic (the only case the code meets)
FDiv(a, b) == IF a = NaN \/ b = NaN THEN NaN
              ELSE IF b = 0 THEN PosInf ELSE RoundDiv(a * Scale, b)

RECURSIVE ISqrtIn(_, _, _)
\* the largest r in lo..hi with r * r <= n, by bisection
ISqrtIn(n, lo, hi) ==
    IF lo >= hi THEN lo
    ELSE LET mid == (lo + hi + 1) \div 2
         IN IF mid * mid <= n THEN ISqrtIn(n, mid, hi) ELSE ISqrtIn(n, lo, mid - 1)

\* f32::sqrt, rounded to nearest
FSqrt(a) ==
    LET n == a * Scale
        r == ISqrtIn(n, 0, 46000)
    IN IF n - r * r > r THEN r + 1 ELSE r

-----------------------------------------------------------------------------
(* Vec / Option helpers *)

At(s, i) == s[i + 1]
None == << >>
Some(i) == << i >>
IsSome(o) == Len(o) = 1
Unwrap(o) == o[1]

Range(s) == { s[i] : i \in 1..Len(s) }

RECURSIVE Concat(_)
\* the concatenation of a sequence of sequences
Concat(ss) == IF ss = << >> THEN << >> ELSE Head(ss) \o Concat(Tail(ss))

\* the sequences of n different elements of S
Injections(S, n) == { p \in [ 1..n -> S ] : \A i, j \in 1..n : i < j => p[i] # p[j] }

\* all enumerations without repetition of the finite set S
Perms(S) == Injections(S, Cardinality(S))

-----------------------------------------------------------------------------
(* The vault: notes and their links *)

\* format!("{}.md", link)
Md(link) == link \o ".md"

\* notes.contains_key(name)
ContainsKey(ns, name) == name \in DOMAIN ns

\* parse_vault / find_orphans: every link, and every link with ".md" appended
IncomingLinks(ns) == UNION { { l, Md(l) } : l \in UNION { Range(ns[n]) : n \in DOMAIN ns } }

\* the names that are in no incoming_links entry
NotIncoming(names, incoming_links) == { name \in names : name \notin incoming_links }

\* parse_vault: orphans
Orphans(ns) == NotIncoming(DOMAIN ns, IncomingLinks(ns))

\* VaultGraph::find_orphans: the same computation, collected in key order
find_orphans(ns, ks) == SelectSeq(ks, LAMBDA name : name \notin IncomingLinks(ns))

\* cos and sin of (i / n) * 2 pi, for the node counts of the model (n <= 4)
CosTurn(i, n) ==
    CASE n = 1 -> Scale
      [] n = 2 -> IF i = 0 THEN Scale ELSE -Scale
      [] n = 3 -> IF i = 0 THEN Scale ELSE -(Scale \div 2)
      [] OTHER -> IF i = 0 THEN Scale ELSE IF i = 2 THEN -Scale ELSE 0

SinTurn(i, n) ==
    CASE n = 1 -> 0
      [] n = 2 -> 0
      [] n = 3 -> IF i = 0 THEN 0 ELSE IF i = 1 THEN RoundDiv(FSqrt(3 * Scale), 2)
                                        ELSE -RoundDiv(FSqrt(3 * Scale), 2)
      [] OTHER -> IF i = 1 THEN Scale ELSE IF i = 3 THEN -Scale ELSE 0

\* parse_vault: the names of the nodes, in key order
NodesToInclude(ns, ks, filter) ==
    IF filter THEN SelectSeq(ks, LAMBDA name : name \notin Orphans(ns)) ELSE ks

\* parse_vault: node_map, name -> index
NodeMap(include) == [ name \in Range(include) |->
                        CHOOSE i \in 0..(Len(include) - 1) : At(include, i) = name ]

\* parse_vault: the nodes on their initial circle
BuildNodes(ns, include) ==
    LET n == Len(include)
        radius == FMul(FSqrt(n * Scale), 5 * Scale)
    IN [ p \in 1..n |->
           [ name |-> include[p],
             x |-> FMul(radius, CosTurn(p - 1, n)),
             y |-> FMul(radius, SinTurn(p - 1, n)),
             is_orphan |-> include[p] \in Orphans(ns) ] ]

\* a resolution that tries the name with ".md" appended first
ResolveLinkSuffixFirst(ns, link) ==
    IF ContainsKey(ns, Md(link)) THEN Some(Md(link))
    ELSE IF ContainsKey(ns, link) THEN Some(link)
    ELSE None

\* parse_vault: the target a link resolves to, as Option
ResolveLink(ns, link) ==
    IF ContainsKey(ns, link) THEN Some(link)
    ELSE IF ContainsKey(ns, Md(link)) THEN Some(Md(link))
    ELSE None

\* parse_vault: the edges one note contributes, in the order of its links
NoteEdges(ns, node_map, name) ==
    IF name \notin DOMAIN node_map THEN << >>
    ELSE LET links == ns[name]
             keep == SelectSeq(links, LAMBDA l :
                        /\ IsSome(ResolveLink(ns, l))
                        /\ Unwrap(ResolveLink(ns, l)) \in DOMAIN node_map)
         IN [ p \in 1..Len(keep) |->
                [ from |-> node_map[name], to |-> node_map[Unwrap(ResolveLink(ns, keep[p]))] ] ]

\* parse_vault: the edge list, note by note in the order of notes.values()
BuildEdges(ns, ks, node_map) ==
    Concat([ p \in 1..Len(ks) |-> NoteEdges(ns, node_map, ks[p]) ])

\* forge-graph-viewer parse_vault(vault_path, filter_orphans) -> GraphData
parse_vault(ns, ks, filter) ==
    LET include == NodesToInclude(ns, ks, filter)
        node_map == NodeMap(include)
    IN [ nodes |-> BuildNodes(ns, include),
         edges |-> BuildEdges(ns, ks, node_map),
         node_map |-> node_map ]

-----------------------------------------------------------------------------
(* forge-graph CLI: VaultGraph *)

\* VaultGraph::parse_vault, second pass: the edges one note adds, by name
CliNoteEdges(ns, name) ==
    LET keep == SelectSeq(ns[name], LAMBDA l : IsSome(ResolveLink(ns, l)))
    IN [ p \in 1..Len(keep) |-> [ from |-> name, to |-> Unwrap(ResolveLink(ns, keep[p])) ] ]

\* VaultGraph::parse_vault: graph.raw_edges(), source and target by name
CliEdges(ns, ks) == Concat([ p \in 1..Len(ks) |-> CliNoteEdges(ns, ks[p]) ])

\* VaultGraph::generate_html_viz: nodes_to_include
VizInclude(ns, orphans, filter) ==
    IF filter = "connected"
    THEN { name \in DOMAIN ns : name \notin orphans }
    ELSE DOMAIN ns

\* VaultGraph::generate_html_viz: the nodes and edges of graph_data
GraphData(ns, ks, orphans, include) ==
    LET shown == SelectSeq(ks, LAMBDA name : name \in include)
    IN [ nodes |-> [ p \in 1..Len(shown) |->
                       [ id |-> shown[p], is_orphan |-> shown[p] \in orphans ] ],
         edges |-> SelectSeq(CliEdges(ns, ks), LAMBDA edge :
                       edge.from \in include /\ edge.to \in include) ]

\* VaultGraph::generate_html_viz(output_path, filter)
generate_html_viz(ns, ks, filter) ==
    LET orphans == Range(find_orphans(ns, ks))
    IN GraphData(ns, ks, orphans, VizInclude(ns, orphans, filter))

-----------------------------------------------------------------------------
(* ForgeGraphViewer.  A viewer state is a record s of the struct's fields;  *)
(* each method is an operator from viewer states to viewer states.         *)

\* enum EgoMode
EgoModes == { "Full", "OneHop", "TwoHop" }

\* vec![(0.0, 0.0); n]
ZeroVelocities(n) == [ i \in 1..n |-> << 0, 0 >> ]

\* ForgeGraphViewer::new: the viewer constructed around the parsed graph g
Viewing(g, filter) ==
    [ graph |-> g,
      full_graph |-> g,
      camera_pos |-> [ x |-> 0, y |-> 0 ],
      zoom |-> Scale \div 2,
      dragging |-> FALSE,
      drag_start |-> [ x |-> 0, y |-> 0 ],
      selected_node |-> None,
      filter_orphans |-> filter,
      velocities |-> ZeroVelocities(Len(g.nodes)),
      simulation_running |-> FALSE,
      ego_mode |-> "Full" ]

\* ForgeGraphViewer::new(vault_path, filter_orphans)
new(ns, ks, filter) == Viewing(parse_vault(ns, ks, filter), filter)

\* the viewer state held in the variables
Self ==
    [ graph |-> graph, full_graph |-> full_graph, camera_pos |-> camera_pos, zoom |-> zoom,
      dragging |-> dragging, drag_start |-> drag_start, selected_node |-> selected_node,
      filter_orphans |-> filter_orphans, velocities |-> velocities,
      simulation_running |-> simulation_running, ego_mode |-> ego_mode ]

\* the variables hold the viewer state s
Holds(s) ==
    \E t \in { s } :
        /\ graph = t.graph
        /\ full_graph = t.full_graph
        /\ camera_pos = t.camera_pos
        /\ zoom = t.zoom
        /\ dragging = t.dragging
        /\ drag_start = t.drag_start
        /\ selected_node = t.selected_node
        /\ filter_orphans = t.filter_orphans
        /\ velocities = t.velocities
        /\ simulation_running = t.simulation_running
        /\ ego_mode = t.ego_mode

\* the variables take the viewer state s
Becomes(s) ==
    \E t \in { s } :
        /\ graph' = t.graph
        /\ full_graph' = t.full_graph
        /\ camera_pos' = t.camera_pos
        /\ zoom' = t.zoom
        /\ dragging' = t.dragging
        /\ drag_start' = t.drag_start
        /\ selected_node' = t.selected_node
        /\ filter_orphans' = t.filter_orphans
        /\ velocities' = t.velocities
        /\ simulation_running' = t.simulation_running
        /\ ego_mode' = t.ego_mode

-----------------------------------------------------------------------------
(* apply_forces *)

\* let k = 30.0
k == 30 * Scale
\* let damping = 0.9
damping == (9 * Scale) \div 10
\* let repulsion_strength = 5000.0
repulsion_strength == 5000 * Scale
\* let attraction_strength = 0.05
attraction_strength == (5 * Scale) \div 100
\* if total_kinetic_energy < 1.0
energy_threshold == 1 * Scale

\* a pair (x, y) of f32
VAdd(v, w) == << v[1] + w[1], v[2] + w[2] >>
VSub(v, w) == << v[1] - w[1], v[2] - w[2] >>

RECURSIVE VSum(_)
\* the sum of a sequence of pairs
VSum(vs) == IF vs = << >> THEN << 0, 0 >> ELSE VAdd(Head(vs), VSum(Tail(vs)))

RECURSIVE SumSeq(_)
\* the sum of a sequence of numbers
SumSeq(ns) == IF ns = << >> THEN 0 ELSE Head(ns) + SumSeq(Tail(ns))

\* (dx * dx + dy * dy).sqrt().max(1.0)
Distance(dx, dy) == Max(FSqrt(FMul(dx, dx) + FMul(dy, dy)), Scale)

\* ((dx / distance) * force, (dy / distance) * force)
Along(dx, dy, distance, force) ==
    << FMul(FDiv(dx, distance), force), FMul(FDiv(dy, distance), force) >>

\* apply_forces, repulsion loop body: force = repulsion_strength / (distance * distance)
RepulsionAt(dx, dy, distance) ==
    Along(dx, dy, distance, FDiv(repulsion_strength, FMul(distance, distance)))
RepulsionBy(dx, dy) == RepulsionAt(dx, dy, Distance(dx, dy))
\* (fx, fy) of the pair node1, node2
Repulsion(node1, node2) == RepulsionBy(node2.x - node1.x, node2.y - node1.y)

\* a spring whose force is (k - distance) * attraction_strength
SpringAtReversed(dx, dy, distance) ==
    Along(dx, dy, distance, FMul(k - distance, attraction_strength))

\* apply_forces, edge loop body: force = (distance - k) * attraction_strength
SpringAt(dx, dy, distance) ==
    Along(dx, dy, distance, FMul(distance - k, attraction_strength))
SpringBy(dx, dy) == SpringAt(dx, dy, Distance(dx, dy))
\* (fx, fy) of the edge from -> to
Spring(from, to) == SpringBy(to.x - from.x, to.y - from.y)

\* apply_forces, repulsion loop: what the pairs add to forces[i]; the pair
\* (i, j), i < j, subtracts (fx, fy) from forces[i] and adds it to forces[j]
RepulsionOn(g, i) ==
    VSum([ p \in 1..Len(g.nodes) |->
             IF p - 1 > i THEN VSub(<< 0, 0 >>, Repulsion(At(g.nodes, i), g.nodes[p]))
             ELSE IF p - 1 < i THEN Repulsion(g.nodes[p], At(g.nodes, i))
             ELSE << 0, 0 >> ])

\* an edge that pulls its source only
EdgePullOneSided(edge, i, f) == IF edge.from = i THEN f ELSE << 0, 0 >>

\* apply_forces, edge loop: what one edge adds to forces[i], given its (fx, fy)
EdgePull(edge, i, f) ==
    VSub(IF edge.from = i THEN f ELSE << 0, 0 >>, IF edge.to = i THEN f ELSE << 0, 0 >>)

\* apply_forces, edge loop: what the edges add to forces[i]
SpringOn(g, i) ==
    VSum([ e \in 1..Len(g.edges) |->
             EdgePull(g.edges[e], i,
                      Spring(At(g.nodes, g.edges[e].from), At(g.nodes, g.edges[e].to))) ])

\* apply_forces: forces[i] after both loops
Force(g, i) == VAdd(RepulsionOn(g, i), SpringOn(g, i))

\* a damping factor above one: (velocity + force) * 1.1
Amplified(v) == << FMul(v[1], (11 * Scale) \div 10), FMul(v[2], (11 * Scale) \div 10) >>

\* apply_forces: (velocity + force) * damping
Damped(v) == << FMul(v[1], damping), FMul(v[2], damping) >>

\* apply_forces: the new velocity of node i
NewVelocity(s, i) == Damped(VAdd(At(s.velocities, i), Force(s.graph, i)))

\* apply_forces: total_kinetic_energy of a velocity list
KineticEnergy(vs) ==
    SumSeq([ i \in 1..Len(vs) |-> FMul(vs[i][1], vs[i][1]) + FMul(vs[i][2], vs[i][2]) ])

\* an update loop without the stop test
IntegrateNeverStops(s, vel) ==
    [ s EXCEPT !.velocities = vel,
               !.graph.nodes = [ i \in 1..Len(vel) |->
                                   [ @[i] EXCEPT !.x = @ + vel[i][1], !.y = @ + vel[i][2] ] ] ]

\* apply_forces: the update loop and the stop test, given the new velocities
Integrate(s, vel) ==
    [ s EXCEPT !.velocities = vel,
               !.graph.nodes = [ i \in 1..Len(vel) |->
                                   [ @[i] EXCEPT !.x = @ + vel[i][1], !.y = @ + vel[i][2] ] ],
               !.simulation_running = ~(KineticEnergy(vel) < energy_threshold) ]

\* an apply_forces without the early return
ApplyForcesAlways(s) ==
    Integrate(s, [ i \in 1..Len(s.graph.nodes) |-> NewVelocity(s, i - 1) ])

\* ForgeGraphViewer::apply_forces(&mut self)
apply_forces(s) ==
    IF ~s.simulation_running THEN s
    ELSE Integrate(s, [ i \in 1..Len(s.graph.nodes) |-> NewVelocity(s, i - 1) ])

-----------------------------------------------------------------------------
(* forge-graph CLI: one iteration of VaultGraph::compute_layout.  The notes are  *)
(* taken in the order of `names`, node i being names[i]; positions and         *)
(* velocities are sequences in that order, an edge is a pair of indices.       *)

\* compute_layout: let k = 100.0
layout_k == 100 * Scale

\* compute_layout, repulsion loop body: force = k * k / distance
LayoutRepulsionAt(dx, dy, distance) ==
    Along(dx, dy, distance, FDiv(FMul(layout_k, layout_k), distance))
\* (fx, fy) of the pair name1, name2
LayoutRepulsion(node1, node2) ==
    LayoutRepulsionAt(node2.x - node1.x, node2.y - node1.y,
                      Distance(node2.x - node1.x, node2.y - node1.y))

\* compute_layout, edge loop body: force = (distance - k) * 0.1
LayoutSpringAt(dx, dy, distance) ==
    Along(dx, dy, distance, FMul(distance - layout_k, Scale \div 10))
\* (fx, fy) of the edge source -> target
LayoutSpring(source, target) ==
    LayoutSpringAt(target.x - source.x, target.y - source.y,
                   Distance(target.x - source.x, target.y - source.y))

\* compute_layout, repulsion loop: what the pairs add to forces[names[i]]; the
\* pair (i, j), i < j, subtracts (fx, fy) from f1 and adds it to f2
LayoutRepulsionOn(g, i) ==
    VSum([ p \in 1..Len(g.nodes) |->
             IF p - 1 > i THEN VSub(<< 0, 0 >>, LayoutRepulsion(At(g.nodes, i), g.nodes[p]))
             ELSE IF p - 1 < i THEN LayoutRepulsion(g.nodes[p], At(g.nodes, i))
             ELSE << 0, 0 >> ])

\* compute_layout, edge loop: what the edges add to forces[names[i]]; an edge
\* adds (fx, fy) to its source and subtracts it from its target
LayoutSpringOn(g, i) ==
    VSum([ e \in 1..Len(g.edges) |->
             EdgePull(g.edges[e], i,
                      LayoutSpring(At(g.nodes, g.edges[e].from), At(g.nodes, g.edges[e].to))) ])

\* compute_layout: forces[name] after both loops
LayoutForce(g, i) == VAdd(LayoutRepulsionOn(g, i), LayoutSpringOn(g, i))

\* compute_layout: one pass of `for iteration in 0..iterations` over the
\* positions g.nodes and the velocities vel; the new velocities and positions
LayoutIteration(g, vel) ==
    LET moved == [ i \in 1..Len(g.nodes) |-> Damped(VAdd(vel[i], LayoutForce(g, i - 1))) ]
    IN [ velocities |-> moved,
         positions |-> [ i \in 1..Len(g.nodes) |->
                           [ x |-> g.nodes[i].x + moved[i][1],
                             y |-> g.nodes[i].y + moved[i][2] ] ] ]

-----------------------------------------------------------------------------
(* Camera: recenter_view, screen_to_world, world_to_screen *)

\* the ends of the zoom range: 0.1 and 10.0
zoom_min == Scale \div 10
zoom_max == 10 * Scale
\* a clamp whose upper end is 20.0
ClampZoomWide(z) == Min(Max(z, zoom_min), 2 * zoom_max)

\* zoom.max(0.1).min(10.0) and clamp(0.1, 10.0)
ClampZoom(z) == Min(Max(z, zoom_min), zoom_max)

RECURSIVE FoldMin(_, _)
\* min over a sequence, started at acc
FoldMin(acc, xs) == IF xs = << >> THEN acc ELSE FoldMin(Min(acc, Head(xs)), Tail(xs))
RECURSIVE FoldMax(_, _)
\* max over a sequence, started at acc
FoldMax(acc, xs) == IF xs = << >> THEN acc ELSE FoldMax(Max(acc, Head(xs)), Tail(xs))

\* recenter_view: viewport / extent * 0.8; a zero extent gives +inf
ZoomToFit(viewport, extent) ==
    IF extent = 0 THEN PosInf ELSE FMul(FDiv(viewport, extent), (8 * Scale) \div 10)

\* a fit that shifts the nodes to the centre of the view instead of the camera
FitBoxMovingNodes(s, viewport_size, min_x, max_x, min_y, max_y) ==
    [ s EXCEPT !.zoom = ClampZoom(Min(ZoomToFit(viewport_size.x, max_x - min_x),
                                      ZoomToFit(viewport_size.y, max_y - min_y))),
               !.graph.nodes = [ i \in 1..Len(@) |->
                                   [ @[i] EXCEPT !.x = @ - RoundDiv(min_x + max_x, 2),
                                                 !.y = @ - RoundDiv(min_y + max_y, 2) ] ] ]

\* recenter_view, given the bounding box of a non-empty node list
FitBox(s, viewport_size, min_x, max_x, min_y, max_y) ==
    [ s EXCEPT !.zoom = ClampZoom(Min(ZoomToFit(viewport_size.x, max_x - min_x),
                                      ZoomToFit(viewport_size.y, max_y - min_y))),
               !.camera_pos = [ x |-> -RoundDiv(min_x + max_x, 2),
                                y |-> -RoundDiv(min_y + max_y, 2) ] ]

\* recenter_view, given the x and y coordinates of the nodes.
\* With no node the bounding box stays (+inf, -inf): the centre (+inf + -inf) / 2
\* is NaN, the width is -inf, viewport / -inf * 0.8 is -0.0 and the clamp gives 0.1.
FitNodes(s, viewport_size, xs, ys) ==
    IF xs = << >>
    THEN [ s EXCEPT !.zoom = zoom_min, !.camera_pos = [ x |-> NaN, y |-> NaN ] ]
    ELSE FitBox(s, viewport_size, FoldMin(PosInf, xs), FoldMax(-PosInf, xs),
                FoldMin(PosInf, ys), FoldMax(-PosInf, ys))

\* ForgeGraphViewer::recenter_view(&mut self, viewport_size)
recenter_view(s, viewport_size) ==
    FitNodes(s, viewport_size,
             [ i \in 1..Len(s.graph.nodes) |-> s.graph.nodes[i].x ],
             [ i \in 1..Len(s.graph.nodes) |-> s.graph.nodes[i].y ])

\* a screen_to_world that adds the camera offset instead of subtracting it
ScreenToWorldAdding(s, screen_pos, center) ==
    [ x |-> FAdd(FDiv(screen_pos.x - center.x, s.zoom), s.camera_pos.x),
      y |-> FAdd(FDiv(screen_pos.y - center.y, s.zoom), s.camera_pos.y) ]

\* ForgeGraphViewer::screen_to_world(&self, screen_pos, center)
screen_to_world(s, screen_pos, center) ==
    [ x |-> FSub(FDiv(screen_pos.x - center.x, s.zoom), s.camera_pos.x),
      y |-> FSub(FDiv(screen_pos.y - center.y, s.zoom), s.camera_pos.y) ]

\* ForgeGraphViewer::world_to_screen(&self, world_pos, center)
world_to_screen(s, world_pos, center) ==
    [ x |-> FAdd(center.x, FMul(FAdd(world_pos.x, s.camera_pos.x), s.zoom)),
      y |-> FAdd(center.y, FMul(FAdd(world_pos.y, s.camera_pos.y), s.zoom)) ]

-----------------------------------------------------------------------------
(* Ego network: extract_ego_network, reset_to_full_graph *)

\* an adjacency list that enters every edge at its source only
NeighborsOut(g, node) ==
    { g.edges[e].to : e \in { d \in 1..Len(g.edges) : g.edges[d].from = node } }

\* extract_ego_network: adj_list.get(&node), every edge entered at both ends
Neighbors(g, node) ==
    { g.edges[e].to : e \in { d \in 1..Len(g.edges) : g.edges[d].from = node } }
    \cup { g.edges[e].from : e \in { d \in 1..Len(g.edges) : g.edges[d].to = node } }

RECURSIVE Bfs(_, _, _, _)
\* extract_ego_network: the loop `for _ in 0..hops`, hops rounds still to run
Bfs(g, include, frontier, hops) ==
    IF hops = 0 THEN include
    ELSE LET next_frontier == (UNION { Neighbors(g, node) : node \in frontier }) \ include
         IN Bfs(g, include \cup next_frontier, next_frontier, hops - 1)

\* extract_ego_network: nodes_to_include
NodesWithin(g, center_node, hops) == Bfs(g, { center_node }, { center_node }, hops)

\* extract_ego_network: new_node_map, for the order in which the HashSet
\* nodes_to_include is enumerated: order[new_idx + 1] is old_idx
NewNodeMap(order) ==
    [ old_idx \in Range(order) |-> (CHOOSE p \in 1..Len(order) : order[p] = old_idx) - 1 ]

\* new_edges that keep the indices of the full graph
NewEdgesUnmapped(g, new_node_map) ==
    SelectSeq(g.edges, LAMBDA edge :
        edge.from \in DOMAIN new_node_map /\ edge.to \in DOMAIN new_node_map)

\* new_edges without the edges from a node to itself
NewEdgesNoLoops(g, new_node_map) ==
    LET kept == SelectSeq(g.edges, LAMBDA edge :
                    /\ edge.from \in DOMAIN new_node_map /\ edge.to \in DOMAIN new_node_map
                    /\ edge.from # edge.to)
    IN [ p \in 1..Len(kept) |->
           [ from |-> new_node_map[kept[p].from], to |-> new_node_map[kept[p].to] ] ]

\* extract_ego_network: new_edges
NewEdges(g, new_node_map) ==
    LET kept == SelectSeq(g.edges, LAMBDA edge :
                    edge.from \in DOMAIN new_node_map /\ edge.to \in DOMAIN new_node_map)
    IN [ p \in 1..Len(kept) |->
           [ from |-> new_node_map[kept[p].from], to |-> new_node_map[kept[p].to] ] ]

\* an extraction that also overwrites the retained graph
InstallBoth(s, center_node, new_node_map, new_nodes) ==
    [ s EXCEPT !.selected_node = IF center_node \in DOMAIN new_node_map
                                 THEN Some(new_node_map[center_node]) ELSE None,
               !.graph = [ nodes |-> new_nodes,
                           edges |-> NewEdges(s.full_graph, new_node_map),
                           node_map |-> << >> ],
               !.full_graph = [ nodes |-> new_nodes,
                                edges |-> NewEdges(s.full_graph, new_node_map),
                                node_map |-> << >> ],
               !.velocities = ZeroVelocities(Len(new_nodes)) ]

\* an extraction that leaves the velocity list as it is
InstallKeepingVelocities(s, center_node, new_node_map, new_nodes) ==
    [ s EXCEPT !.selected_node = IF center_node \in DOMAIN new_node_map
                                 THEN Some(new_node_map[center_node]) ELSE None,
               !.graph = [ nodes |-> new_nodes,
                           edges |-> NewEdges(s.full_graph, new_node_map),
                           node_map |-> << >> ] ]

\* an extraction that selects the position of the centre counted from one
InstallFromOne(s, center_node, new_node_map, new_nodes) ==
    [ s EXCEPT !.selected_node = IF center_node \in DOMAIN new_node_map
                                 THEN Some(new_node_map[center_node] + 1) ELSE None,
               !.graph = [ nodes |-> new_nodes,
                           edges |-> NewEdges(s.full_graph, new_node_map),
                           node_map |-> << >> ],
               !.velocities = ZeroVelocities(Len(new_nodes)) ]

\* an extraction that keeps the full-graph index of the centre as the selection
InstallCentreUnmapped(s, center_node, new_node_map, new_nodes) ==
    [ s EXCEPT !.selected_node = Some(center_node),
               !.graph = [ nodes |-> new_nodes,
                           edges |-> NewEdges(s.full_graph, new_node_map),
                           node_map |-> << >> ],
               !.velocities = ZeroVelocities(Len(new_nodes)) ]

\* extract_ego_network, from "Update selected node index" on, given new_node_map
\* and new_nodes
Install(s, center_node, new_node_map, new_nodes) ==
    [ s EXCEPT !.selected_node = IF center_node \in DOMAIN new_node_map
                                 THEN Some(new_node_map[center_node]) ELSE None,
               !.graph = [ nodes |-> new_nodes,
                           edges |-> NewEdges(s.full_graph, new_node_map),
                           node_map |-> << >> ],
               !.velocities = ZeroVelocities(Len(new_nodes)) ]

\* ForgeGraphViewer::extract_ego_network(&mut self, center_node, hops), with the
\* enumeration order of nodes_to_include; center_node indexes full_graph.nodes
\* `self.full_graph.nodes[old_idx]` is unchecked: with a center beyond the full
\* graph the indexing panics before any field of self is assigned
extract_ego_network(s, center_node, hops, order) ==
    IF center_node < Len(s.full_graph.nodes)
    THEN Install(s, center_node, NewNodeMap(order),
                 [ p \in 1..Len(order) |-> At(s.full_graph.nodes, order[p]) ])
    ELSE s

\* the enumeration orders extract_ego_network may see for this call
EgoOrders(s, center_node, hops) == Perms(NodesWithin(s.full_graph, center_node, hops))

\* a reset that only switches the mode
ResetModeOnly(s) == [ s EXCEPT !.ego_mode = "Full" ]

\* a reset that starts the layout simulation again
ResetRestartingLayout(s) ==
    [ s EXCEPT !.graph = s.full_graph,
               !.velocities = ZeroVelocities(Len(s.full_graph.nodes)),
               !.ego_mode = "Full",
               !.simulation_running = TRUE ]

\* ForgeGraphViewer::reset_to_full_graph(&mut self)
reset_to_full_graph(s) ==
    [ s EXCEPT !.graph = s.full_graph,
               !.velocities = ZeroVelocities(Len(s.full_graph.nodes)),
               !.ego_mode = "Full" ]

-----------------------------------------------------------------------------
(* ForgeGraphViewer::update: the handlers of one frame, after apply_forces *)

\* with_inner_size([1200.0, 800.0]): rect.size() and rect.center()
viewport_size == [ x |-> 1200 * Scale, y |-> 800 * Scale ]
rect_center == [ x |-> 600 * Scale, y |-> 400 * Scale ]

\* update: let hops = match mode { ... }
HopsOf(mode) == CASE mode = "OneHop" -> 1 [] mode = "TwoHop" -> 2 [] OTHER -> 0

\* update: `else { self.dragging = false; }` of a frame with no drag
NotDragged(s) == [ s EXCEPT !.dragging = FALSE ]

\* update, mouse wheel: scroll_delta is smooth_scroll_delta.y
handle_scroll(s, scroll_delta) ==
    IF Abs(scroll_delta) > Scale \div 10
    THEN [ s EXCEPT !.zoom = ClampZoom(FMul(@, Scale + RoundDiv(scroll_delta, 1000))) ]
    ELSE s

\* update, dragging: `if !self.dragging { ... }`
StartDrag(s, pointer, center) ==
    IF ~s.dragging
    THEN [ s EXCEPT !.dragging = TRUE,
                    !.drag_start = IF IsSome(pointer) THEN Unwrap(pointer) ELSE center ]
    ELSE s

\* a pan that adds the screen delta itself to the camera offset
PanUnscaled(s, pointer) ==
    IF IsSome(pointer)
    THEN [ s EXCEPT !.camera_pos =
                        [ x |-> FAdd(@.x, Unwrap(pointer).x - s.drag_start.x),
                          y |-> FAdd(@.y, Unwrap(pointer).y - s.drag_start.y) ],
                    !.drag_start = Unwrap(pointer) ]
    ELSE s

\* update, dragging: `if let Some(current_pos) = ... { ... }`
Pan(s, pointer) ==
    IF IsSome(pointer)
    THEN [ s EXCEPT !.camera_pos =
                        [ x |-> FAdd(@.x, FDiv(Unwrap(pointer).x - s.drag_start.x, s.zoom)),
                          y |-> FAdd(@.y, FDiv(Unwrap(pointer).y - s.drag_start.y, s.zoom)) ],
                    !.drag_start = Unwrap(pointer) ]
    ELSE s

\* update, dragging: pointer is response.interact_pointer_pos()
handle_drag(s, pointer, center) == Pan(StartDrag(s, pointer, center), pointer)

\* (dx * dx + dy * dy).sqrt() < click_radius.  A node with |dx| or |dy| at or
\* above the radius is not within it; the squares are only taken of smaller
\* values, which keeps them within the integers of the model.
Within(dx, dy, click_radius) ==
    /\ Abs(dx) < click_radius
    /\ Abs(dy) < click_radius
    /\ FSqrt(FMul(dx, dx) + FMul(dy, dy)) < click_radius

\* update, node selection: is the node within click_radius of world_pos
Hit(node, world_pos, click_radius) ==
    Within(node.x - world_pos.x, node.y - world_pos.y, click_radius)

\* a search that reports the position of the first hit counted from one
FindFirstFromOne(hit) ==
    IF hit = {} THEN None ELSE Some((CHOOSE i \in hit : \A j \in hit : i <= j) + 1)

\* update, node selection: `.find(...)` returns the first node that is hit
FindFirst(hit) == IF hit = {} THEN None ELSE Some(CHOOSE i \in hit : \A j \in hit : i <= j)

\* update, node selection: clicked_node, given world_pos and click_radius
FindNode(nodes, world_pos, click_radius) ==
    FindFirst({ i \in 0..(Len(nodes) - 1) : Hit(At(nodes, i), world_pos, click_radius) })

\* update, node selection: clicked_node
ClickedNode(s, click_pos, center) ==
    FindNode(s.graph.nodes, screen_to_world(s, click_pos, center), FDiv(10 * Scale, s.zoom))

\* a selection that never extracts the ego network
SelectOnly(s, clicked_node, size, order) == [ s EXCEPT !.selected_node = clicked_node ]

\* update, node selection: `if let Some(idx) = clicked_node { ... } else { ... }`
Select(s, clicked_node, size, order) ==
    IF IsSome(clicked_node)
    THEN IF s.ego_mode # "Full"
         THEN recenter_view(
                  extract_ego_network([ s EXCEPT !.selected_node = clicked_node ],
                                      Unwrap(clicked_node), HopsOf(s.ego_mode), order),
                  size)
         ELSE [ s EXCEPT !.selected_node = clicked_node ]
    ELSE [ s EXCEPT !.selected_node = clicked_node ]

\* update, mode changes: does this mode change call extract_ego_network
ModeExtracts(s, new_mode) == new_mode # "Full" /\ IsSome(s.selected_node)

\* update, mode changes, after `self.ego_mode = new_mode`
ApplyMode(s, size, order) ==
    IF s.ego_mode = "Full"
    THEN recenter_view(reset_to_full_graph(s), size)
    ELSE IF IsSome(s.selected_node)
         THEN recenter_view(
                  extract_ego_network(s, Unwrap(s.selected_node), HopsOf(s.ego_mode), order),
                  size)
         ELSE s

\* update, mode changes (a mode label was clicked)
handle_mode(s, new_mode, size, order) ==
    ApplyMode([ s EXCEPT !.ego_mode = new_mode ], size, order)

-----------------------------------------------------------------------------
(* Inputs *)

\* all vaults with notes named in names, each with a link list of linkseqs
Vaults(names, linkseqs) == UNION { [ D -> linkseqs ] : D \in SUBSET names }

\* the viewer runs: note names, and the link lists a note may have
ViewerNames == { "a", "b", "c" }
ViewerLinks == { << >> } \cup { << l >> : l \in ViewerNames }
\* vaults of up to two notes with every link list (to itself, to the other note,
\* to no note), and vaults of three notes that link to each other
ViewerVaults ==
    UNION { [ D -> ViewerLinks ] : D \in { {}, { "a" }, { "a", "b" } } }
    \cup { ns \in [ ViewerNames -> ViewerLinks ] : \A n \in ViewerNames : ns[n] # << n >> }

\* smooth_scroll_delta.y of a wheel event: a zoom step, and one below the dead band
ScrollDeltas == { 1000 * Scale, Scale \div 20 }

\* interact_pointer_pos() of a drag frame
DragPointers ==
    { None, Some([ x |-> rect_center.x + 50 * Scale, y |-> rect_center.y - 20 * Scale ]) }

\* interact_pointer_pos() of a click: on a drawn node, or 30 pixels to the right
\* of the rightmost drawn node (on no node); the centre when nothing is drawn
ClickPositions(s) ==
    LET drawn == { world_to_screen(s, [ x |-> s.graph.nodes[i].x, y |-> s.graph.nodes[i].y ],
                                   rect_center) : i \in 1..Len(s.graph.nodes) }
        right == CHOOSE p \in drawn : \A q \in drawn : q.x <= p.x
    IN IF drawn = {} THEN { rect_center }
       ELSE drawn \cup { [ x |-> right.x + 30 * Scale, y |-> right.y ] }

-----------------------------------------------------------------------------
(* History *)

\* `last` describes the call of extract_ego_network made by the frame that led to
\* the current state (op is "click" or "mode"), or the tick that ran (op is
\* "tick", with its total_kinetic_energy), or the choice of the Full mode (op is
\* "full", hops the radius of the mode that was left); after any other frame it
\* is NoOp.
\*   picked, picked_name: the index the handler passed as center_node and the
\*       name that index has in the active graph the user saw
\*   hops, order: the radius, and the enumeration order of nodes_to_include
NoOp ==
    [ op |-> "none", picked |-> None, picked_name |-> None, hops |-> 0, order |-> << >>,
      energy |-> 0 ]

\* the name of node `picked` of the active graph of s, as Option
NameOf(s, picked) ==
    IF IsSome(picked) /\ Unwrap(picked) < Len(s.graph.nodes)
    THEN Some(At(s.graph.nodes, Unwrap(picked)).name) ELSE None

\* the history of a frame that calls extract_ego_network(Unwrap(picked), hops)
Extracted(op, s, picked, hops, order) ==
    [ NoOp EXCEPT !.op = op, !.picked = picked, !.picked_name = NameOf(s, picked),
                  !.hops = hops, !.order = order ]

\* the history of a frame that chooses the Full mode
Reset(s) == [ NoOp EXCEPT !.op = "full", !.hops = HopsOf(s.ego_mode) ]

-----------------------------------------------------------------------------
(* The viewer: one action per frame of ForgeGraphViewer::update *)

\* The runs of the viewer take vaults of up to three notes and one enumeration of
\* their keys: the link structures are drawn over all names, so the graphs are
\* drawn over all indices.
ViewerKeyOrder == << "a", "b", "c" >>
ViewerKeys(ns) == SelectSeq(ViewerKeyOrder, LAMBDA name : name \in DOMAIN ns)

Init ==
    \E ns \in ViewerVaults : \E filter \in BOOLEAN :
        /\ notes = ns
        /\ keys = ViewerKeys(ns)
        /\ Holds(new(ns, keys, filter))
        /\ last = NoOp
        /\ budget = [ cam |-> MaxCamOps, tick |-> 0 ]
        /\ out = << >>

\* a frame with no input
Tick ==
    /\ \E s \in { apply_forces(Self) } :
          /\ Becomes(NotDragged(s))
          /\ last' = IF simulation_running
                     THEN [ NoOp EXCEPT !.op = "tick", !.energy = KineticEnergy(s.velocities) ]
                     ELSE NoOp
    /\ UNCHANGED << notes, keys, budget, out >>

\* a frame with a mouse wheel event
Scroll ==
    /\ budget.cam > 0
    /\ \E scroll_delta \in ScrollDeltas :
          Becomes(NotDragged(handle_scroll(apply_forces(Self), scroll_delta)))
    /\ last' = NoOp
    /\ budget' = [ budget EXCEPT !.cam = @ - 1 ]
    /\ UNCHANGED << notes, keys, out >>

\* a frame in which the pointer drags
Drag ==
    /\ budget.cam > 0
    /\ \E pointer \in DragPointers :
          Becomes(handle_drag(apply_forces(Self), pointer, rect_center))
    /\ last' = NoOp
    /\ budget' = [ budget EXCEPT !.cam = @ - 1 ]
    /\ UNCHANGED << notes, keys, out >>

\* a frame with a click (response.clicked() with a pointer position); order is
\* the enumeration order extract_ego_network sees, if it is called
Click ==
    \E s \in { NotDragged(apply_forces(Self)) } : \E click_pos \in ClickPositions(s) :
      \E picked \in { ClickedNode(s, click_pos, rect_center) } :
         /\ IF IsSome(picked) /\ s.ego_mode # "Full"
            THEN \E order \in EgoOrders(s, Unwrap(picked), HopsOf(s.ego_mode)) :
                    /\ Becomes(Select(s, picked, viewport_size, order))
                    /\ last' = Extracted("click", s, picked, HopsOf(s.ego_mode), order)
            ELSE /\ Becomes(Select(s, picked, viewport_size, << >>))
                 /\ last' = NoOp
         /\ UNCHANGED << notes, keys, budget, out >>

\* a frame with a click on "Fit to View"
FitToView ==
    /\ Becomes(recenter_view(NotDragged(apply_forces(Self)), viewport_size))
    /\ last' = NoOp
    /\ UNCHANGED << notes, keys, budget, out >>

\* a frame with a click on one of the three mode labels
ModeChange ==
    \E s \in { NotDragged(apply_forces(Self)) } : \E new_mode \in EgoModes :
         /\ IF ModeExtracts(s, new_mode)
            THEN \E order \in EgoOrders(s, Unwrap(s.selected_node), HopsOf(new_mode)) :
                    /\ Becomes(handle_mode(s, new_mode, viewport_size, order))
                    /\ last' = Extracted("mode", s, s.selected_node, HopsOf(new_mode), order)
            ELSE /\ Becomes(handle_mode(s, new_mode, viewport_size, << >>))
                 /\ last' = IF new_mode = "Full" THEN Reset(s) ELSE NoOp
         /\ UNCHANGED << notes, keys, budget, out >>

Next == Tick \/ Scroll \/ Drag \/ Click \/ FitToView \/ ModeChange

Spec == Init /\ [][Next]_vars

-----------------------------------------------------------------------------
(* Building: the vault is scanned, then the viewer is constructed from it and *)
(* the CLI commands run on it                                                 *)

\* sequences over S of length at most n without repetition (a Vec collected from
\* a HashSet)
NoDupSeqs(S, n) ==
    UNION { { q \in [ 1..m -> S ] : \A i, j \in 1..m : i # j => q[i] # q[j] } : m \in 0..n }

\* the scanned vaults: note names, some ending in ".md", and link targets
BuildNames == { "a", "a.md", "b" }
BuildVaults == Vaults(BuildNames, NoDupSeqs(BuildNames, MaxLinks))

\* A -> {B}, B -> {C}, C, D
Scenario1 ==
    [ n \in { "A", "B", "C", "D" } |->
        IF n = "A" THEN << "B" >> ELSE IF n = "B" THEN << "C" >> ELSE << >> ]

\* no vault
EmptyVault == [ n \in {} |-> << >> ]

\* the filter argument of `forge-graph viz`
VizFilters == { "all", "connected" }

\* nothing computed yet
NoOut == [ op |-> "none", orphans |-> << >>, nodes |-> << >>, edges |-> << >> ]

InitBuild ==
    \E ns \in BuildVaults \cup { Scenario1 } : \E ks \in Perms(DOMAIN ns) :
      \E filter \in BOOLEAN :
        /\ notes = ns
        /\ keys = ks
        /\ Holds(new(EmptyVault, << >>, filter))
        /\ last = NoOp
        /\ budget = [ cam |-> 0, tick |-> 0 ]
        /\ out = NoOut

\* forge-graph-viewer main: ForgeGraphViewer::new on the scanned vault
New ==
    /\ last.op = "none"
    /\ Becomes(new(notes, keys, filter_orphans))
    /\ last' = [ NoOp EXCEPT !.op = "new" ]
    /\ UNCHANGED << notes, keys, budget, out >>

\* forge-graph orphans / analyze / daily: VaultGraph::find_orphans
FindOrphans ==
    /\ out' = [ NoOut EXCEPT !.op = "orphans", !.orphans = find_orphans(notes, keys) ]
    /\ UNCHANGED << notes, keys, graph, full_graph, camera_pos, zoom, dragging, drag_start,
                    selected_node, filter_orphans, velocities, simulation_running, ego_mode,
                    last, budget >>

\* forge-graph viz: VaultGraph::generate_html_viz
Viz ==
    /\ \E filter \in VizFilters :
         \E data \in { generate_html_viz(notes, keys, filter) } :
            out' = [ NoOut EXCEPT !.op = filter, !.nodes = data.nodes, !.edges = data.edges ]
    /\ UNCHANGED << notes, keys, graph, full_graph, camera_pos, zoom, dragging, drag_start,
                    selected_node, filter_orphans, velocities, simulation_running, ego_mode,
                    last, budget >>

NextBuild == New \/ FindOrphans \/ Viz

BuildSpec == InitBuild /\ [][NextBuild]_vars

-----------------------------------------------------------------------------
(* Claims about the built graph (BuildSpec) *)

\* the names of the nodes of g, in index order
NodeNames(g) == [ p \in 1..Len(g.nodes) |-> g.nodes[p].name ]

\* every edge of g has both ends among the nodes of g
IndicesValid(g) ==
    \A p \in 1..Len(g.edges) :
        /\ g.edges[p].from \in 0..(Len(g.nodes) - 1)
        /\ g.edges[p].to \in 0..(Len(g.nodes) - 1)

\* link l of the scanned vault names document d: d is l, or l with ".md" appended
Names(l, d) == d = l \/ d = Md(l)

\* some document other than d holds a link that names d
LinkedByOther(d) ==
    \E u \in DOMAIN notes \ { d } : \E p \in 1..Len(notes[u]) : Names(notes[u][p], d)

\* some document, d included, holds a link that names d
LinkedByAny(d) ==
    \E u \in DOMAIN notes : \E p \in 1..Len(notes[u]) : Names(notes[u][p], d)

\* C1 (as claimed): in the viewer's built graph and in the CLI's find_orphans, a
\* document is flagged orphan iff no document other than itself holds a link
\* that names it (as L or as L + ".md").
C1_OrphanIffNoOtherLinks ==
    /\ last.op = "new" =>
         \A p \in 1..Len(graph.nodes) :
             graph.nodes[p].is_orphan <=> ~LinkedByOther(graph.nodes[p].name)
    /\ out.op = "orphans" =>
         \A d \in DOMAIN notes : d \in Range(out.orphans) <=> ~LinkedByOther(d)

\* link l resolves to document v: v is l when l is a document, else v is l + ".md"
Resolves(l, v) ==
    /\ v \in DOMAIN notes
    /\ l = v \/ (l \notin DOMAIN notes /\ Md(l) = v)

\* how many links of document u resolve to document v
LinkCount(u, v) == Cardinality({ p \in 1..Len(notes[u]) : Resolves(notes[u][p], v) })

\* how many of the edges (a sequence of [from, to] over names) go from u to v
EdgeCount(edges, u, v) ==
    Cardinality({ p \in 1..Len(edges) : edges[p].from = u /\ edges[p].to = v })

\* the edges of g with the names of their ends
NamedEdges(g) ==
    [ p \in 1..Len(g.edges) |->
        [ from |-> At(g.nodes, g.edges[p].from).name, to |-> At(g.nodes, g.edges[p].to).name ] ]

\* names lists exactly the documents of include, once each, and edges holds
\* exactly the resolved links between documents of include
ExactlyOn(include, names, edges) ==
    /\ Range(names) = include
    /\ Len(names) = Cardinality(include)
    /\ \A p \in 1..Len(edges) : edges[p].from \in include /\ edges[p].to \in include
    /\ \A u, v \in include : EdgeCount(edges, u, v) = LinkCount(u, v)

\* the documents some other document links to
NonOrphans == { d \in DOMAIN notes : LinkedByOther(d) }

\* the documents the build classifies as not orphan: those any document links to
Classified == { d \in DOMAIN notes : LinkedByAny(d) }

\* the filtered build and the "connected" data hold exactly the documents of keep
\* and the resolved links between them; the unfiltered build and the "all" data
\* hold every document and every resolved link, flagging those outside keep.
\* For A -> {B}, B -> {C}, C, D the filtered graph is {B, C} with the edge B -> C.
FilterKeeps(keep) ==
    /\ last.op = "new" =>
         /\ IndicesValid(graph)
         /\ IF filter_orphans
            THEN ExactlyOn(keep, NodeNames(graph), NamedEdges(graph))
            ELSE /\ ExactlyOn(DOMAIN notes, NodeNames(graph), NamedEdges(graph))
                 /\ \A p \in 1..Len(graph.nodes) :
                        graph.nodes[p].is_orphan <=> graph.nodes[p].name \notin keep
         /\ (filter_orphans /\ notes = Scenario1) =>
                /\ Range(NodeNames(graph)) = { "B", "C" }
                /\ NamedEdges(graph) = << [ from |-> "B", to |-> "C" ] >>
    /\ out.op = "connected" =>
         ExactlyOn(keep, [ p \in 1..Len(out.nodes) |-> out.nodes[p].id ], out.edges)
    /\ out.op = "all" =>
         /\ ExactlyOn(DOMAIN notes, [ p \in 1..Len(out.nodes) |-> out.nodes[p].id ], out.edges)
         /\ \A p \in 1..Len(out.nodes) :
                out.nodes[p].is_orphan <=> out.nodes[p].id \notin keep

\* C5 (as claimed): with filter_orphans set the built graph has exactly the
\* non-orphan documents (those another document links to) as nodes and exactly
\* the resolved links between them as edges; with it unset every document is a
\* node, every resolved link an edge, and orphans are only flagged.  The same
\* for the CLI's "connected" and "all" data.  For A -> {B}, B -> {C}, C, D the
\* filtered graph is {B, C} with the single edge B -> C.
C5_FilterOrphans == FilterKeeps(NonOrphans)

\* what the builds do instead: they keep the documents any document links to,
\* a document's own links included
FilterKeepsClassified == FilterKeeps(Classified)

\* the filtered build of A -> {B}, B -> {C}, C, D: the edge from the orphan A is dropped
FilteredScenario1 ==
    /\ last.op = "new"
    /\ filter_orphans
    /\ notes = Scenario1
    /\ Len(graph.nodes) = 2
    /\ Len(graph.edges) = 1

\* no document of the scanned vault links to itself
NoSelfLinks == \A d \in DOMAIN notes : \A p \in 1..Len(notes[d]) : ~Names(notes[d][p], d)

\* without self-links the flag and the filter are as C1 and C5 say
AsClaimedWithoutSelfLinks == NoSelfLinks => (C1_OrphanIffNoOtherLinks /\ C5_FilterOrphans)

\* how many links the documents of include hold that resolve to a document of
\* include
ResolvedLinks(include) ==
    SumSeq([ p \in 1..Len(keys) |->
               IF keys[p] \in include
               THEN Cardinality({ q \in 1..Len(notes[keys[p]]) :
                                    \E v \in include : Resolves(notes[keys[p]][q], v) })
               ELSE 0 ])

\* edges (by name) holds one edge for every link of a document of include that
\* resolves to a document of include, from the document to the one named L if
\* there is one and else to the one named L + ".md", and nothing else
EdgePerResolvedLink(include, edges) ==
    /\ include \subseteq DOMAIN notes
    /\ \A u, v \in include : EdgeCount(edges, u, v) = LinkCount(u, v)
    /\ Len(edges) = ResolvedLinks(include)

\* C14: graph construction, in the viewer and in the CLI, yields exactly one edge
\* for each (document, outbound link) pair whose link resolves and whose ends are
\* both included nodes, the target being the document named exactly L if it
\* exists and else the one named L + ".md"; a link that resolves to neither
\* yields no edge and no node.
C14_EdgePerResolvedLink ==
    /\ last.op = "new" =>
         /\ IndicesValid(graph)
         /\ EdgePerResolvedLink(Range(NodeNames(graph)), NamedEdges(graph))
    /\ out.op \in VizFilters =>
         EdgePerResolvedLink({ out.nodes[p].id : p \in 1..Len(out.nodes) }, out.edges)

\* the build of a vault of a and b, b linking to a.md (no such document, and no
\* a.md.md) and to a: one edge from b
C14_Witness ==
    /\ last.op = "new"
    /\ DOMAIN notes = { "a", "b" }
    /\ notes["b"] = << "a.md", "a" >>
    /\ Len(graph.nodes) = 2
    /\ EdgeCount(NamedEdges(graph), "b", "a") = 1
    /\ Len(graph.edges) = 1 + Len(NoteEdges(notes, graph.node_map, "a"))

\* C15 (as claimed): in a graph built with filter_orphans unset a node's
\* is_orphan flag is false iff at least one edge of the built edge list has the
\* node as its target, also when documents named L and L + ".md" both exist.
C15_OrphanIffNoIncomingEdge ==
    (last.op = "new" /\ ~filter_orphans) =>
        \A i \in 0..(Len(graph.nodes) - 1) :
            ~At(graph.nodes, i).is_orphan
                <=> \E e \in 1..Len(graph.edges) : graph.edges[e].to = i

\* no link of the scanned vault names two documents (L and L + ".md")
NoLinkNamesTwo ==
    \A u \in DOMAIN notes : \A p \in 1..Len(notes[u]) :
        ~(notes[u][p] \in DOMAIN notes /\ Md(notes[u][p]) \in DOMAIN notes)

\* when no link names two documents the flag and the edges agree
FlagMatchesEdges == NoLinkNamesTwo => C15_OrphanIffNoIncomingEdge

-----------------------------------------------------------------------------
(* Claims about the running viewer (Spec) *)

\* C4: in every reachable state of the viewer every edge of the active graph and
\* of the retained full graph has from and to below the node count of its graph.
C4_EdgeIndicesValid == IndicesValid(graph) /\ IndicesValid(full_graph)

\* an ego network smaller than the full graph that kept some edge
C4_Witness ==
    /\ last.op \in { "click", "mode" }
    /\ Len(graph.nodes) < Len(full_graph.nodes)
    /\ Len(graph.edges) > 0

\* C6: no frame of the viewer (tick, zoom, pan, click, fit to view, ego
\* extraction, reset to the full graph) changes the retained full graph.
C6_FullGraphUnchanged == [][full_graph' = full_graph]_vars

\* an extraction has replaced the active graph by a proper part of the full graph
C6_Witness ==
    /\ last.op \in { "click", "mode" }
    /\ Len(graph.nodes) < Len(full_graph.nodes)
    /\ Len(full_graph.edges) > 0

\* C7: choosing the Full mode makes the active node and edge lists those of the
\* retained full graph and zeroes the velocities; and whenever ego_mode is Full
\* the active graph has the nodes and edges of the full graph.
C7_FullModeShowsFullGraph ==
    /\ ego_mode = "Full" =>
         graph.nodes = full_graph.nodes /\ graph.edges = full_graph.edges
    /\ last.op = "full" =>
         /\ ego_mode = "Full"
         /\ graph.nodes = full_graph.nodes
         /\ graph.edges = full_graph.edges
         /\ Len(velocities) = Len(full_graph.nodes)
         /\ \A p \in 1..Len(velocities) : velocities[p] = << 0, 0 >>

\* the Full mode was chosen while an ego network was shown
C7_Witness ==
    /\ last.op = "full"
    /\ last.hops > 0
    /\ IsSome(selected_node)
    /\ Len(graph.nodes) > 1

\* C8 (as claimed): when a click in OneHop or TwoHop mode hits a node, the index
\* passed to extract_ego_network denotes in the full graph the node with the
\* name of the clicked node, and selected_node names that node afterwards.
C8_ClickCentresOnClickedNode ==
    last.op = "click" =>
        /\ At(full_graph.nodes, Unwrap(last.picked)).name = Unwrap(last.picked_name)
        /\ IsSome(selected_node)
        /\ At(graph.nodes, Unwrap(selected_node)).name = Unwrap(last.picked_name)

\* C18: whatever clicks, mode changes and resets came before, every call of
\* extract_ego_network by the viewer passes a center below the number of nodes of
\* the full graph, so the unchecked access full_graph.nodes[old_idx] stays in
\* range.
C18_CenterWithinFullGraph ==
    last.op \in { "click", "mode" } =>
        /\ IsSome(last.picked)
        /\ Unwrap(last.picked) < Len(full_graph.nodes)

\* a mode change extracted around the last node of the full graph, out of a view
\* reached by an earlier extraction or left by a reset
C18_Witness ==
    /\ last.op = "mode"
    /\ Len(full_graph.nodes) = 3
    /\ Unwrap(last.picked) = 2
    /\ IsSome(selected_node)
    /\ Len(graph.nodes) < 3

\* the index in the full graph of the node named name
FullIndexOf(name) ==
    CHOOSE n \in 0..(Len(full_graph.nodes) - 1) : At(full_graph.nodes, n).name = name

\* the nodes of the full graph joined to node by an edge, in either direction
Adjacent(node) ==
    { m \in 0..(Len(full_graph.nodes) - 1) :
        \E p \in 1..Len(full_graph.edges) :
            \/ full_graph.edges[p].from = node /\ full_graph.edges[p].to = m
            \/ full_graph.edges[p].from = m /\ full_graph.edges[p].to = node }

\* is there a walk of exactly len undirected steps from node c to node n
RECURSIVE Walk(_, _, _)
Walk(c, n, len) ==
    IF len = 0 THEN c = n ELSE \E m \in Adjacent(n) : Walk(c, m, len - 1)

\* the undirected distance from c to n is at most h
DistanceAtMost(c, n, h) == \E len \in 0..h : Walk(c, n, len)

\* the nodes of the full graph at most radius undirected steps from center
Ball(center, radius) ==
    { n \in 0..(Len(full_graph.nodes) - 1) : DistanceAtMost(center, n, radius) }

\* the active graph is the ego network of the full-graph node center with the
\* given radius: its nodes are copies of the nodes of the ball, once each, and
\* between two of them it has the edges the full graph has
IsEgoNetwork(center, radius) ==
    /\ Len(graph.nodes) = Cardinality(Ball(center, radius))
    /\ Range(graph.nodes) = { At(full_graph.nodes, n) : n \in Ball(center, radius) }
    /\ IndicesValid(graph)
    /\ \A u, v \in Range(NodeNames(graph)) :
           EdgeCount(NamedEdges(graph), u, v) = EdgeCount(NamedEdges(full_graph), u, v)

\* C24: whenever the ego mode is OneHop or TwoHop and a node is selected, the
\* active graph is the ego network, in the full graph, of the node with the name
\* of the selected node, with radius 1 or 2 as the mode says; after every
\* sequence of clicks, mode changes and resets.
C24_ActiveGraphIsEgoOfSelection ==
    (ego_mode # "Full" /\ IsSome(selected_node)) =>
        /\ Unwrap(selected_node) < Len(graph.nodes)
        /\ IsEgoNetwork(FullIndexOf(At(graph.nodes, Unwrap(selected_node)).name),
                        HopsOf(ego_mode))

\* an ego view of two of three nodes in the TwoHop mode, reached by a click in an
\* ego view
C24_Witness ==
    /\ ego_mode = "TwoHop"
    /\ last.op = "click"
    /\ IsSome(selected_node)
    /\ Len(full_graph.nodes) = 3
    /\ Len(graph.nodes) = 2
    /\ Len(graph.edges) > 0

\* this step is a frame in which a mode label was clicked while a node was
\* selected
ModeChosen == last'.op \in { "mode", "full" } /\ IsSome(selected_node)

\* the selection names the same node before and after this step
SameNodeSelected ==
    /\ IsSome(selected_node')
    /\ Unwrap(selected_node') < Len(graph'.nodes)
    /\ At(graph'.nodes, Unwrap(selected_node')).name
           = At(graph.nodes, Unwrap(selected_node)).name

\* C25 (as claimed): choosing an ego mode (from Full, from the other ego mode,
\* or the current one again) or the Full mode never changes which node is
\* selected: the selected index afterwards denotes, in the new active graph,
\* the node with the name the selected node had before.
C25_ModeChangeKeepsSelection == [][ModeChosen => SameNodeSelected]_vars

\* a mode chosen in the Full mode keeps the selected node
KeepsSelectionFromFull == [][(ModeChosen /\ ego_mode = "Full") => SameNodeSelected]_vars

\* C26: in every reachable state of the viewer selected_node is None or an index
\* of the node list of the active graph, so the overlay's
\* self.graph.nodes[idx].name stays in range; across extractions, resets, clicks
\* and mode changes.
C26_SelectionInRange ==
    IsSome(selected_node) => Unwrap(selected_node) \in 0..(Len(graph.nodes) - 1)

\* the last node of an ego view that is smaller than the full graph is selected
C26_Witness ==
    /\ IsSome(selected_node)
    /\ Len(graph.nodes) < Len(full_graph.nodes)
    /\ Unwrap(selected_node) = Len(graph.nodes) - 1
    /\ Unwrap(selected_node) > 0

\* the active graph is not the graph reset_to_full_graph shows: it was installed
\* by extract_ego_network
EgoExtracted == graph # full_graph

\* C27 (as claimed): whenever the ego mode is OneHop or TwoHop and the active
\* graph is an ego-extracted graph, it is an ego network of the radius of the
\* current mode (1 for OneHop, 2 for TwoHop) around some node of the full graph,
\* also after a click on empty space cleared the selection and the mode was
\* switched.
C27_RadiusMatchesMode ==
    (ego_mode # "Full" /\ EgoExtracted) =>
        \E center \in 0..(Len(full_graph.nodes) - 1) : IsEgoNetwork(center, HopsOf(ego_mode))

\* C28: in every reachable state of the viewer the velocity list has one entry
\* per node of the active graph, and a frame that extracts an ego network or
\* resets to the full graph leaves every velocity zero.
C28_OneVelocityPerNode ==
    /\ Len(velocities) = Len(graph.nodes)
    /\ last.op \in { "click", "mode", "full" } =>
          \A i \in 1..Len(velocities) : velocities[i] = << 0, 0 >>

\* an extraction has made the active graph smaller than the full graph, or a
\* reset has made it larger than the ego view it replaced
C28_Witness ==
    \/ /\ last.op \in { "click", "mode" }
       /\ Len(graph.nodes) = 2
       /\ Len(full_graph.nodes) = 3
       /\ Len(velocities) = 2
    \/ /\ last.op = "full"
       /\ IsSome(selected_node)
       /\ Len(velocities) = 3

\* C29: in the viewer the simulation flag is false from the start and no frame
\* (click, mode change with its extraction or reset, pan, zoom, fit-to-view,
\* tick) sets it; so in every reachable state every node of the active graph is
\* where the full-graph node of its name is.
C29_SimulationNeverRuns ==
    /\ ~simulation_running
    /\ \A i \in 1..Len(graph.nodes) :
          \E j \in 1..Len(full_graph.nodes) :
             /\ full_graph.nodes[j].name = graph.nodes[i].name
             /\ full_graph.nodes[j].x = graph.nodes[i].x
             /\ full_graph.nodes[j].y = graph.nodes[i].y

\* an ego view of two of three nodes, after a scroll or drag frame and a frame
\* without input
C29_Witness ==
    /\ budget.cam < MaxCamOps
    /\ last.op = "none"
    /\ IsSome(selected_node)
    /\ ego_mode # "Full"
    /\ Len(graph.nodes) = 2
    /\ Len(full_graph.nodes) = 3
    /\ At(graph.nodes, 0).name # At(full_graph.nodes, 0).name

-----------------------------------------------------------------------------
(* Ego extraction on arbitrary full graphs *)

\* the graph with the nodes named by names, set in a row, and the edge list edges
GraphOn(names, edges) ==
    [ nodes |-> [ p \in 1..Len(names) |->
                    [ name |-> names[p], x |-> (p - 1) * 100 * Scale, y |-> 0,
                      is_orphan |-> FALSE ] ],
      edges |-> edges,
      node_map |-> NodeMap(names) ]

\* every edge list of at most n edges over the node indices 0..(m - 1): edges in
\* either direction, from a node to itself, and repeated
EdgeLists(m, n) ==
    UNION { [ 1..len -> [ from : 0..(m - 1), to : 0..(m - 1) ] ] : len \in 0..n }

\* a chain 0 - 1 - 2 - 3, each edge in one of its two directions
Chains ==
    { << IF d[1] THEN [ from |-> 0, to |-> 1 ] ELSE [ from |-> 1, to |-> 0 ],
         IF d[2] THEN [ from |-> 1, to |-> 2 ] ELSE [ from |-> 2, to |-> 1 ],
         IF d[3] THEN [ from |-> 2, to |-> 3 ] ELSE [ from |-> 3, to |-> 2 ] >> :
      d \in [ 1..3 -> BOOLEAN ] }

\* the full graphs of EgoSpec: all graphs on one, two and three nodes with at
\* most MaxEdges edges, and the chains on four nodes
EgoGraphs ==
    { GraphOn(<< "a" >>, edges) : edges \in EdgeLists(1, MaxEdges) }
    \cup { GraphOn(<< "a", "b" >>, edges) : edges \in EdgeLists(2, MaxEdges) }
    \cup { GraphOn(<< "a", "b", "c" >>, edges) : edges \in EdgeLists(3, MaxEdges) }
    \cup { GraphOn(<< "a", "b", "c", "d" >>, edges) : edges \in Chains }

InitEgo ==
    \E g \in EgoGraphs :
        /\ notes = EmptyVault
        /\ keys = << >>
        /\ Holds(Viewing(g, FALSE))
        /\ last = NoOp
        /\ budget = [ cam |-> 0, tick |-> 0 ]
        /\ out = NoOut

\* extract_ego_network(center_node, hops) on the full graph, for every node of
\* it, every radius up to MaxHops and every enumeration order of the HashSet
Extract ==
    /\ last.op = "none"
    /\ \E center_node \in 0..(Len(full_graph.nodes) - 1) : \E hops \in 0..MaxHops :
         \E order \in EgoOrders(Self, center_node, hops) :
            /\ Becomes(extract_ego_network(Self, center_node, hops, order))
            /\ last' = Extracted("extract", Self, Some(center_node), hops, order)
    /\ UNCHANGED << notes, keys, budget, out >>

NextEgo == Extract

EgoSpec == InitEgo /\ [][NextEgo]_vars

\* C2: extract_ego_network(center, hops) includes node n iff the undirected
\* shortest-path distance from center to n is at most hops; with hops = 0 the
\* included set is exactly {center}.
C2_EgoMembership ==
    last.op = "extract" =>
        /\ Len(graph.nodes) = Cardinality(Range(NodeNames(graph)))
        /\ Range(NodeNames(graph)) \subseteq Range(NodeNames(full_graph))
        /\ \A n \in 0..(Len(full_graph.nodes) - 1) :
               At(full_graph.nodes, n).name \in Range(NodeNames(graph))
                   <=> DistanceAtMost(Unwrap(last.picked), n, last.hops)
        /\ last.hops = 0 =>
               Range(NodeNames(graph)) = { At(full_graph.nodes, Unwrap(last.picked)).name }

\* a chain of four nodes extracted from one end with hops = 2: the far end is
\* joined to the centre but three steps away, and is left out
C2_Witness ==
    /\ last.op = "extract"
    /\ last.hops = 2
    /\ Len(full_graph.nodes) = 4
    /\ Len(graph.nodes) = 3
    /\ DistanceAtMost(Unwrap(last.picked), 3, 3)
    /\ At(full_graph.nodes, 3).name \notin Range(NodeNames(graph))

\* how many of the edges (a sequence of [from, to] over indices) go from u to v,
\* after each end is mapped through old
MappedCount(edges, old, u, v) ==
    Cardinality({ p \in 1..Len(edges) : At(old, edges[p].from) = u /\ At(old, edges[p].to) = v })

\* C3: after extract_ego_network, the ego edges mapped back through the inverse
\* of the old-to-new index map are exactly the multiset of full-graph edges with
\* both ends included (self-loops and parallel edges with their multiplicity),
\* and no ego edge refers to an excluded node.
C3_EgoEdges ==
    last.op = "extract" =>
        /\ IndicesValid(graph)
        /\ Len(graph.nodes) = Len(last.order)
        /\ \A u, v \in 0..(Len(full_graph.nodes) - 1) :
               MappedCount(graph.edges, last.order, u, v) =
                   IF u \in Range(last.order) /\ v \in Range(last.order)
                   THEN Cardinality({ p \in 1..Len(full_graph.edges) :
                            full_graph.edges[p].from = u /\ full_graph.edges[p].to = v })
                   ELSE 0

\* an extraction that keeps a self-loop and a pair of parallel edges and drops
\* an edge to an excluded node
C3_Witness ==
    /\ last.op = "extract"
    /\ Len(graph.edges) < Len(full_graph.edges)
    /\ \E p \in 1..Len(graph.edges) : graph.edges[p].from = graph.edges[p].to
    /\ \E p, q \in 1..Len(graph.edges) : p # q /\ graph.edges[p] = graph.edges[q]

\* C22: after extract_ego_network the ego node list holds one entry per included
\* node, each equal in name, x, y and is_orphan to the full-graph node it was
\* taken from; the old indices taken, in the order of their new indices 0..k-1,
\* are the included set without repetition (the old-to-new map is a bijection
\* onto 0..k-1); and selected_node is the new index of the centre.
C22_EgoNodesAreCopies ==
    last.op = "extract" =>
        /\ Len(graph.nodes) = Len(last.order)
        /\ Len(last.order) = Cardinality(Range(last.order))
        /\ Range(last.order) =
               { n \in 0..(Len(full_graph.nodes) - 1) :
                   DistanceAtMost(Unwrap(last.picked), n, last.hops) }
        /\ \A new_idx \in 0..(Len(graph.nodes) - 1) :
               At(graph.nodes, new_idx) = At(full_graph.nodes, At(last.order, new_idx))
        /\ IsSome(selected_node)
        /\ Unwrap(selected_node) < Len(last.order)
        /\ At(last.order, Unwrap(selected_node)) = Unwrap(last.picked)

\* an extraction of three of four nodes in which the centre changed its index
C22_Witness ==
    /\ last.op = "extract"
    /\ Len(full_graph.nodes) = 4
    /\ Len(graph.nodes) = 3
    /\ Unwrap(selected_node) # Unwrap(last.picked)
    /\ At(graph.nodes, 0).name # At(full_graph.nodes, 0).name

-----------------------------------------------------------------------------
(* The layout simulation switched on: apply_forces tick after tick *)

\* the graph with the nodes named by names at the positions pos and the edge
\* list edges
Placed(names, pos, edges) ==
    [ nodes |-> [ p \in 1..Len(names) |->
                    [ name |-> names[p], x |-> pos[p][1], y |-> pos[p][2],
                      is_orphan |-> FALSE ] ],
      edges |-> edges,
      node_map |-> NodeMap(names) ]

\* where the second of two nodes lies, seen from the first: 10 units away along
\* each axis and across, at the ideal length of the viewer's springs, near the
\* balance of spring and repulsion, at the ideal length of the CLI's springs, on
\* the CLI's initial circle, and far away
Offsets ==
    { << 10 * Scale, 0 >>, << 0, -(10 * Scale) >>, << 6 * Scale, 8 * Scale >>,
      << 30 * Scale, 0 >>, << 56 * Scale, 0 >>, << 100 * Scale, 0 >>,
      << 14142, 0 >>, << 300 * Scale, 0 >> }

\* layouts a simulation passes through: two nodes with no edge or one edge, and
\* three nodes in a corner with no edge, a chain and one edge
PlacedGraphs ==
    { Placed(<< "a", "b" >>, << << Scale, -(2 * Scale) >>,
                                << Scale + off[1], off[2] - 2 * Scale >> >>, edges) :
        off \in Offsets, edges \in EdgeLists(2, 1) }
    \cup { Placed(<< "a", "b", "c" >>,
                  << << 0, 0 >>, << 10 * Scale, 0 >>, << 0, 20 * Scale >> >>, edges) :
             edges \in { << >>,
                         << [ from |-> 0, to |-> 1 ], [ from |-> 1, to |-> 2 ] >>,
                         << [ from |-> 2, to |-> 0 ] >> } }

\* the viewer with the simulation running and every node at rest: on the initial
\* circle of a vault, or on a layout the simulation passes through
InitSim ==
    /\ \/ \E ns \in ViewerVaults : \E filter \in BOOLEAN :
            /\ notes = ns
            /\ keys = ViewerKeys(ns)
            /\ Holds([ new(ns, keys, filter) EXCEPT !.simulation_running = TRUE ])
       \/ \E g \in PlacedGraphs :
            /\ notes = EmptyVault
            /\ keys = << >>
            /\ Holds([ Viewing(g, FALSE) EXCEPT !.simulation_running = TRUE ])
    /\ last = NoOp
    /\ budget = [ cam |-> MaxSimCamOps, tick |-> MaxTicks ]
    /\ out = NoOut

\* forge-graph viz: the first iteration of compute_layout on the nodes and edges
\* of the graph, every velocity zero
Layout ==
    /\ last.op = "none"
    /\ out.op = "none"
    /\ \E moved \in { LayoutIteration(graph, ZeroVelocities(Len(graph.nodes))) } :
          out' = [ op |-> "layout", velocities |-> moved.velocities,
                   positions |-> moved.positions ]
    /\ UNCHANGED << notes, keys, graph, full_graph, camera_pos, zoom, dragging, drag_start,
                    selected_node, filter_orphans, velocities, simulation_running, ego_mode,
                    last, budget >>

\* a frame with no input while the simulation runs: one apply_forces tick
SimTick ==
    /\ budget.tick > 0
    /\ simulation_running
    /\ \E s \in { apply_forces(Self) } :
          /\ Becomes(NotDragged(s))
          /\ last' = [ NoOp EXCEPT !.op = "tick", !.energy = KineticEnergy(s.velocities) ]
    /\ budget' = [ budget EXCEPT !.tick = @ - 1 ]
    /\ UNCHANGED << notes, keys, out >>

\* a frame with no input after the simulation has stopped: apply_forces returns
\* at once
StoppedTick ==
    /\ budget.tick > 0
    /\ ~simulation_running
    /\ Becomes(NotDragged(apply_forces(Self)))
    /\ last' = [ NoOp EXCEPT !.op = "idle" ]
    /\ budget' = [ budget EXCEPT !.tick = @ - 1 ]
    /\ UNCHANGED << notes, keys, out >>

\* the history of the apply_forces call of a frame: s is the state it returns
TickHistory(s) ==
    IF simulation_running
    THEN [ NoOp EXCEPT !.op = "tick", !.energy = KineticEnergy(s.velocities) ]
    ELSE [ NoOp EXCEPT !.op = "idle" ]

\* a frame with a camera input while the simulation is watched: apply_forces,
\* then the mouse wheel zoom, the drag or the click on "Fit to View"
SimCamera ==
    /\ budget.tick > 0
    /\ budget.cam > 0
    /\ \E s \in { apply_forces(Self) } :
          /\ \/ \E scroll_delta \in ScrollDeltas :
                   Becomes(NotDragged(handle_scroll(s, scroll_delta)))
             \/ \E pointer \in DragPointers :
                   Becomes(handle_drag(s, pointer, rect_center))
             \/ Becomes(recenter_view(NotDragged(s), viewport_size))
          /\ last' = TickHistory(s)
    /\ budget' = [ cam |-> budget.cam - 1, tick |-> budget.tick - 1 ]
    /\ UNCHANGED << notes, keys, out >>

NextSim == SimTick \/ StoppedTick \/ Layout \/ SimCamera

SimSpec == InitSim /\ [][NextSim]_vars

\* C9 (as claimed): while the simulation runs, the total kinetic energy computed
\* by a tick is never greater than the total kinetic energy at the previous tick.
C9_EnergyNeverRises ==
    [][simulation_running => KineticEnergy(velocities') <= KineticEnergy(velocities)]_vars

\* the velocities of the current state with the forces of the next tick added,
\* before damping
Pushed == [ i \in 1..Len(velocities) |-> VAdd(velocities[i], Force(graph, i - 1)) ]

\* C9 (amended): while the simulation runs, the total kinetic energy computed by
\* a tick is never greater than the kinetic energy of the previous velocities
\* with the tick's forces added (sum over nodes of |v + F|^2): damping never
\* adds energy, the forces may.
C9_DampingNeverAddsEnergy ==
    [][simulation_running => KineticEnergy(velocities') <= KineticEnergy(Pushed)]_vars

\* the second tick of a running simulation of a graph with an edge, still moving
C9_Witness ==
    /\ last.op = "tick"
    /\ budget.tick <= MaxTicks - 2
    /\ last.energy > energy_threshold
    /\ Len(graph.edges) > 0

\* this step is a frame of the viewer: update runs apply_forces once
Frame == budget'.tick = budget.tick - 1

\* the divisor of every edge of the active graph in the spring loop
EdgeDistances ==
    { Distance(At(graph.nodes, graph.edges[e].to).x - At(graph.nodes, graph.edges[e].from).x,
               At(graph.nodes, graph.edges[e].to).y - At(graph.nodes, graph.edges[e].from).y) :
        e \in 1..Len(graph.edges) }

\* C13: on a graph with no node or with one node (also one node with a self-loop
\* edge) a running tick indexes nodes, forces and velocities in range, divides
\* by a distance of at least 1.0, leaves position and velocity unchanged,
\* computes the total kinetic energy 0 and stops the simulation.
C13_DegenerateTick ==
    [][(Frame /\ simulation_running /\ Len(graph.nodes) <= 1) =>
          /\ IndicesValid(graph)
          /\ Len(velocities) = Len(graph.nodes)
          /\ \A d \in EdgeDistances : d >= Scale
          /\ graph' = graph
          /\ velocities' = velocities
          /\ last'.op = "tick"
          /\ last'.energy = 0
          /\ ~simulation_running']_vars

\* the tick of a single node with a self-loop edge has run
C13_Witness ==
    /\ last.op = "tick"
    /\ Len(graph.nodes) = 1
    /\ Len(graph.edges) = 1
    /\ graph.edges[1].from = graph.edges[1].to
    /\ ~simulation_running

\* C16: a running tick stops the simulation exactly when the total kinetic energy
\* it computes is below 1.0, and once the simulation is stopped every further
\* apply_forces call leaves positions, velocities and the stopped flag unchanged.
C16_StopsBelowThreshold ==
    [][Frame =>
          /\ simulation_running =>
                /\ last'.op = "tick"
                /\ simulation_running' <=> last'.energy >= energy_threshold
          /\ ~simulation_running =>
                /\ graph' = graph
                /\ velocities' = velocities
                /\ ~simulation_running']_vars

\* a frame has passed after the simulation stopped with some node still moving
C16_Witness ==
    /\ last.op = "idle"
    /\ ~simulation_running
    /\ \E i \in 1..Len(velocities) : velocities[i] # << 0, 0 >>

\* the part of a graph no simulation tick and no camera operation may touch: the
\* names and is_orphan flags of the nodes in order, and the edge list
Topology(g) ==
    [ names |-> [ i \in 1..Len(g.nodes) |-> g.nodes[i].name ],
      orphans |-> [ i \in 1..Len(g.nodes) |-> g.nodes[i].is_orphan ],
      edges |-> g.edges ]

\* the x/y positions of the nodes of a graph, in order
Positions(g) == [ i \in 1..Len(g.nodes) |-> << g.nodes[i].x, g.nodes[i].y >> ]

\* this step is a frame with a wheel, drag or fit-to-view input
CameraFrame == budget'.cam = budget.cam - 1

\* C21: a simulation tick leaves the node count, names, is_orphan flags and edge
\* list of the active graph, the selection, the ego mode and the camera as they
\* were; and a frame with a camera operation (pan, zoom, fit-to-view) leaves
\* every node where the frame's apply_forces call put it (where it was, once the
\* simulation has stopped).
C21_TickMovesOnlyPositions ==
    [][Frame =>
          /\ Topology(graph') = Topology(graph)
          /\ selected_node' = selected_node
          /\ ego_mode' = ego_mode
          /\ ~CameraFrame => (camera_pos' = camera_pos /\ zoom' = zoom)
          /\ CameraFrame =>
                /\ Positions(graph') = Positions(apply_forces(Self).graph)
                /\ ~simulation_running => Positions(graph') = Positions(graph)]_vars

\* a camera frame changed the camera after a tick had moved a node of a graph
\* with an edge
C21_Witness ==
    /\ budget.cam < MaxSimCamOps
    /\ budget.tick < MaxTicks - 1
    /\ Len(graph.edges) > 0
    /\ Positions(graph) # Positions(full_graph)
    /\ (camera_pos.x # 0 \/ zoom # Scale \div 2)

\* apply_forces: the sum of forces[i] over all nodes
ForceSum(g) == VSum([ i \in 1..Len(g.nodes) |-> Force(g, i - 1) ])

\* compute_layout: the sum of forces[name] over all notes
LayoutForceSum(g) == VSum([ i \in 1..Len(g.nodes) |-> LayoutForce(g, i - 1) ])

\* this step is a running tick of the viewer's simulation
RunningTick == Frame /\ simulation_running

\* this step is the first iteration of the CLI layout
LayoutStep == out.op = "none" /\ out'.op = "layout"

\* the sum of the positions [x, y] of a list
PositionSum(ps) == VSum([ i \in 1..Len(ps) |-> << ps[i].x, ps[i].y >> ])

\* in every tick and layout iteration the forces over all nodes sum to zero in
\* each coordinate
ForcesSumToZero ==
    [][/\ RunningTick => ForceSum(graph) = << 0, 0 >>
       /\ LayoutStep => LayoutForceSum(graph) = << 0, 0 >>]_vars

\* C30 (as claimed): in every running tick the forces over all nodes sum to zero
\* in each coordinate, so while the velocities sum to zero (as they do at the
\* start) the sum of the new velocities is zero and the sum of the positions,
\* the centroid, does not move; in the viewer and in the CLI layout.
C30_ForcesBalance ==
    [][/\ RunningTick =>
            /\ ForceSum(graph) = << 0, 0 >>
            /\ VSum(velocities) = << 0, 0 >> =>
                  /\ VSum(velocities') = << 0, 0 >>
                  /\ PositionSum(graph'.nodes) = PositionSum(graph.nodes)
       /\ LayoutStep =>
            /\ LayoutForceSum(graph) = << 0, 0 >>
            /\ VSum(out'.velocities) = << 0, 0 >>
            /\ PositionSum(out'.positions) = PositionSum(graph.nodes)]_vars

\* after is the damped sum of before and the forces, which cancel, to within half a
\* step of rounding for each of the n velocities: |after - 0.9 * before| <= n / 2
DampedSum(after, before, n) == Abs(10 * after - 9 * before) <= 5 * n

\* C30 (amended): in every running tick every repulsion and every spring
\* contribution is applied equal and opposite and a self-loop contributes
\* nothing, so the forces over all nodes cancel (in fixed point, where additions
\* are exact, they sum to zero); the sum of the new velocities is 0.9 times the
\* sum of the old ones only to within the rounding of the n products
\* (v + f) * damping, so from zero velocities it stays within rounding of zero,
\* not at zero; and the sum of the positions moves by the sum of the new
\* velocities.
C30_ForcesBalanceWithinRounding ==
    [][/\ RunningTick =>
            /\ ForceSum(graph) = << 0, 0 >>
            /\ DampedSum(VSum(velocities')[1], VSum(velocities)[1], Len(velocities))
            /\ DampedSum(VSum(velocities')[2], VSum(velocities)[2], Len(velocities))
            /\ PositionSum(graph'.nodes)
                  = VAdd(PositionSum(graph.nodes), VSum(velocities'))
       /\ LayoutStep =>
            /\ LayoutForceSum(graph) = << 0, 0 >>
            /\ DampedSum(VSum(out'.velocities)[1], 0, Len(graph.nodes))
            /\ DampedSum(VSum(out'.velocities)[2], 0, Len(graph.nodes))
            /\ PositionSum(out'.positions)
                  = VAdd(PositionSum(graph.nodes), VSum(out'.velocities))]_vars

\* a tick of three nodes with an edge has left velocities that do not sum to
\* zero
C30_Witness ==
    /\ last.op = "tick"
    /\ Len(graph.nodes) = 3
    /\ Len(graph.edges) > 0
    /\ VSum(velocities) # << 0, 0 >>

\* the push on node i away from node j: along the line from j to i, of magnitude
\* strength / distance^2, the distance floored at 1.0
PushFrom(strength, node_i, node_j) ==
    LET dx == node_i.x - node_j.x
        dy == node_i.y - node_j.y
        distance == Distance(dx, dy)
    IN Along(dx, dy, distance, FDiv(strength, FMul(distance, distance)))

\* the pushes on node i of nodes from every other node, each pair counted once
Pushes(strength, nodes, i) ==
    VSum([ p \in 1..Len(nodes) |->
             IF p - 1 = i THEN << 0, 0 >> ELSE PushFrom(strength, At(nodes, i), nodes[p]) ])

\* the first tick from rest of a graph without edges has run; the nodes were at
\* their positions less their velocities
FirstTickWithoutEdges ==
    /\ last.op = "tick"
    /\ budget.tick = MaxTicks - 1
    /\ Len(graph.edges) = 0

BeforeTick ==
    [ i \in 1..Len(graph.nodes) |->
        [ x |-> graph.nodes[i].x - velocities[i][1], y |-> graph.nodes[i].y - velocities[i][2] ] ]

\* the first iteration of compute_layout has run on the graph, without edges
FirstLayoutWithoutEdges ==
    /\ out.op = "layout"
    /\ last.op = "none"
    /\ Len(graph.edges) = 0

\* in the viewer's apply_forces the repulsion on every node is the sum of the
\* pushes from every other node with strength repulsion_strength
ViewerRepulsionAsClaimed ==
    FirstTickWithoutEdges =>
        \A i \in 0..(Len(graph.nodes) - 1) :
            At(velocities, i) = Damped(Pushes(repulsion_strength, BeforeTick, i))

\* in the CLI's compute_layout the repulsion on every node is the sum of the
\* pushes from every other node with strength k * k
LayoutRepulsionAsClaimed ==
    FirstLayoutWithoutEdges =>
        \A i \in 0..(Len(graph.nodes) - 1) :
            At(out.velocities, i) = Damped(Pushes(FMul(layout_k, layout_k), graph.nodes, i))

\* C19 (as claimed): in one layout iteration, in the viewer's apply_forces and in
\* the CLI's compute_layout, every unordered pair of distinct nodes contributes
\* exactly once an equal-and-opposite repulsive force along the line between
\* them, of magnitude k_repulsion / distance^2 with the distance floored at 1.0.
C19_RepulsionInverseSquare == ViewerRepulsionAsClaimed /\ LayoutRepulsionAsClaimed

\* the edges of the active graph that join two different nodes
ProperEdges == { e \in 1..Len(graph.edges) : graph.edges[e].from # graph.edges[e].to }

\* the force f on the first endpoint of an edge with offset (dx, dy) to the
\* other endpoint and floored length distance: toward the other endpoint when
\* the edge is longer than ideal, away from it when it is shorter, and as
\* strong as stiffness * |distance - ideal| (up to the rounding of the direction
\* and of the products)
Hooke(f, dx, dy, distance, ideal, stiffness) ==
    LET pull == FMul(distance - ideal, stiffness)
        toward == Sgn(distance - ideal)
    IN /\ Sgn(f[1]) \in { 0, toward * Sgn(dx) }
       /\ Sgn(f[2]) \in { 0, toward * Sgn(dy) }
       /\ 100 * Abs(FSqrt(FMul(f[1], f[1]) + FMul(f[2], f[2])) - Abs(pull))
              <= 2 * Scale + Abs(pull)
       /\ Abs(pull) >= Scale => f # << 0, 0 >>

\* the spring of edge e of the active graph obeys Hooke with the ideal length
\* and stiffness of the viewer, and of the CLI
SpringsObeyHooke ==
    \A e \in ProperEdges :
        LET from == At(graph.nodes, graph.edges[e].from)
            to == At(graph.nodes, graph.edges[e].to)
            distance == Distance(to.x - from.x, to.y - from.y)
        IN /\ Hooke(Spring(from, to), to.x - from.x, to.y - from.y, distance,
                    k, attraction_strength)
           /\ Hooke(LayoutSpring(from, to), to.x - from.x, to.y - from.y, distance,
                    layout_k, Scale \div 10)

\* two nodes joined by one edge
OneEdgeBetweenTwo == Len(graph.nodes) = 2 /\ Len(graph.edges) = 1 /\ ProperEdges # {}

\* the two points are exactly 10 units apart
TenApart(p, q) ==
    (p.x - q.x) * (p.x - q.x) + (p.y - q.y) * (p.y - q.y) = (10 * Scale) * (10 * Scale)

\* the two points are more than 10 units apart: they are along one axis already
FartherThanTen(p, q) == Max(Abs(p.x - q.x), Abs(p.y - q.y)) > 10 * Scale

\* the first tick of the viewer has run on two nodes that were at rest, 10 units
\* apart and joined by one edge
FirstTickOfTenApart ==
    /\ last.op = "tick"
    /\ budget.tick = MaxTicks - 1
    /\ OneEdgeBetweenTwo
    /\ TenApart(BeforeTick[1], BeforeTick[2])

-----------------------------------------------------------------------------
(* The viewport transform: world -> screen -> world and screen -> world -> screen *)

\* a graph with no node
EmptyGraph == [ nodes |-> << >>, edges |-> << >>, node_map |-> << >> ]

\* zoom values between the clamps: 0.1, 0.5 (the initial zoom), 1, 3 and 10
Zooms == { zoom_min, Scale \div 2, Scale, 3 * Scale, zoom_max }

\* camera offsets: none, and two left by panning
Cameras ==
    { [ x |-> 0, y |-> 0 ], [ x |-> 100, y |-> -40 ], [ x |-> -(7 * Scale) - 5, y |-> 33 ] }

\* coordinates: every value within MaxCoord steps of zero, and three far from it
Coords == (-MaxCoord..MaxCoord) \cup { 7 * Scale + 5, -(12 * Scale) - 34, 600 * Scale }

\* rect.center() of the 1200 x 800 window, and of a window resized to 801 x 600
Centers == { rect_center, [ x |-> 400 * Scale + 50, y |-> 300 * Scale ] }

\* world points, and screen points
Points == { [ x |-> a, y |-> b ] : a \in Coords, b \in { 0, 1, -(12 * Scale) - 34 } }

InitView ==
    \E cam \in Cameras : \E z \in Zooms :
        /\ notes = EmptyVault
        /\ keys = << >>
        /\ Holds([ Viewing(EmptyGraph, FALSE) EXCEPT !.camera_pos = cam, !.zoom = z ])
        /\ last = NoOp
        /\ budget = [ cam |-> 0, tick |-> 0 ]
        /\ out = NoOut

\* the viewer maps a world point to the screen and back
WorldRoundTrip ==
    /\ \E p \in Points : \E center \in Centers :
         \E screen \in { world_to_screen(Self, p, center) } :
            out' = [ op |-> "world", point |-> p, center |-> center, via |-> screen,
                     back |-> screen_to_world(Self, screen, center) ]
    /\ UNCHANGED << notes, keys, graph, full_graph, camera_pos, zoom, dragging, drag_start,
                    selected_node, filter_orphans, velocities, simulation_running, ego_mode,
                    last, budget >>

\* the viewer maps a screen point to the world and back
ScreenRoundTrip ==
    /\ \E q \in Points : \E center \in Centers :
         \E world \in { screen_to_world(Self, q, center) } :
            out' = [ op |-> "screen", point |-> q, center |-> center, via |-> world,
                     back |-> world_to_screen(Self, world, center) ]
    /\ UNCHANGED << notes, keys, graph, full_graph, camera_pos, zoom, dragging, drag_start,
                    selected_node, filter_orphans, velocities, simulation_running, ego_mode,
                    last, budget >>

NextView == WorldRoundTrip \/ ScreenRoundTrip

ViewSpec == InitView /\ [][NextView]_vars

\* C10 (as claimed): screen_to_world(world_to_screen(p, s), s) equals p, and
\* world_to_screen(screen_to_world(q, s), s) equals q.
C10_RoundTripExact == out.op \in { "world", "screen" } => out.back = out.point

\* C10 (amended): the round trips return the point within the tolerance of the
\* arithmetic.  World -> screen -> world is off by at most half a rounding step
\* of the screen coordinate divided by zoom, plus half a step of the division;
\* screen -> world -> screen by at most half a step of the world coordinate
\* times zoom, plus half a step of the multiplication.
C10_RoundTripWithinTolerance ==
    /\ out.op = "world" =>
         /\ 2 * zoom * Abs(out.back.x - out.point.x) <= Scale + zoom
         /\ 2 * zoom * Abs(out.back.y - out.point.y) <= Scale + zoom
    /\ out.op = "screen" =>
         /\ 2 * Scale * Abs(out.back.x - out.point.x) <= zoom + Scale
         /\ 2 * Scale * Abs(out.back.y - out.point.y) <= zoom + Scale

\* a round trip through the screen, with the camera panned and zoomed out, that
\* does not return the world point exactly
C10_Witness ==
    /\ out.op = "world"
    /\ camera_pos.x # 0
    /\ zoom < Scale
    /\ out.back # out.point

-----------------------------------------------------------------------------
(* The pointer: wheel, drag, click and fit-to-view frames on the full graph *)

\* vaults of no, one, two and three notes without links: the nodes on their circles
PointerVaults == UNION { [ D -> { << >> } ] : D \in { {}, { "a" }, { "a", "b" }, ViewerNames } }

\* smooth_scroll_delta.y: factors -1, 0 and 0.5 (zooming out), a delta inside the
\* dead band and one on its edge, factors 1.3, 2 and 31 (zooming in)
WheelDeltas ==
    { -(2000 * Scale), -(1000 * Scale), -(500 * Scale), -(Scale \div 20), Scale \div 10,
      300 * Scale, 1000 * Scale, 30000 * Scale }

\* interact_pointer_pos() of a drag frame: none, and three pointer positions
PointerDrags ==
    { None } \cup { Some([ x |-> rect_center.x + a, y |-> rect_center.y + b ]) :
                      << a, b >> \in { << 0, 0 >>, << 7 * Scale, -(3 * Scale) >>,
                                       << -(20 * Scale) - 1, 5 * Scale >> } }

\* interact_pointer_pos() of a click: on a drawn node, off every node, and a few
\* pixels from the centre of the window
PointerClicks(s) ==
    ClickPositions(s)
    \cup { [ x |-> rect_center.x + a, y |-> rect_center.y ] :
             a \in { -(2 * Scale), 3 * Scale, 40 * Scale } }

\* what the last pointer frame did: the screen delta of a drag (as Option), the
\* world position and the radius of a click
NoPointer == [ op |-> "none", delta |-> None, world_pos |-> None, click_radius |-> 0 ]

InitPointer ==
    \E ns \in PointerVaults :
        /\ notes = ns
        /\ keys = ViewerKeys(ns)
        /\ Holds(new(ns, keys, FALSE))
        /\ last = NoOp
        /\ budget = [ cam |-> MaxPointerOps, tick |-> 0 ]
        /\ out = NoPointer

\* a frame with a mouse wheel event
Wheel ==
    /\ budget.cam > 0
    /\ \E scroll_delta \in WheelDeltas :
          Becomes(NotDragged(handle_scroll(apply_forces(Self), scroll_delta)))
    /\ out' = [ NoPointer EXCEPT !.op = "wheel" ]
    /\ budget' = [ budget EXCEPT !.cam = @ - 1 ]
    /\ UNCHANGED << notes, keys, last >>

\* a frame in which the pointer drags: delta is current_pos - self.drag_start
PointerDrag ==
    /\ budget.cam > 0
    /\ \E pointer \in PointerDrags :
         \E s \in { StartDrag(apply_forces(Self), pointer, rect_center) } :
            /\ Becomes(Pan(s, pointer))
            /\ out' = [ NoPointer EXCEPT
                          !.op = "drag",
                          !.delta = IF IsSome(pointer)
                                    THEN Some([ x |-> Unwrap(pointer).x - s.drag_start.x,
                                                y |-> Unwrap(pointer).y - s.drag_start.y ])
                                    ELSE None ]
    /\ budget' = [ budget EXCEPT !.cam = @ - 1 ]
    /\ UNCHANGED << notes, keys, last >>

\* a frame with a click, in the Full mode
PointerClick ==
    /\ budget.cam > 0
    /\ \E s \in { NotDragged(apply_forces(Self)) } : \E click_pos \in PointerClicks(s) :
          /\ Becomes(Select(s, ClickedNode(s, click_pos, rect_center), viewport_size, << >>))
          /\ out' = [ NoPointer EXCEPT
                        !.op = "click",
                        !.world_pos = Some(screen_to_world(s, click_pos, rect_center)),
                        !.click_radius = FDiv(10 * Scale, s.zoom) ]
    /\ budget' = [ budget EXCEPT !.cam = @ - 1 ]
    /\ UNCHANGED << notes, keys, last >>

\* a frame with a click on "Fit to View"
PointerFit ==
    /\ budget.cam > 0
    /\ Becomes(recenter_view(NotDragged(apply_forces(Self)), viewport_size))
    /\ out' = [ NoPointer EXCEPT !.op = "fit" ]
    /\ budget' = [ budget EXCEPT !.cam = @ - 1 ]
    /\ UNCHANGED << notes, keys, last >>

NextPointer == Wheel \/ PointerDrag \/ PointerClick \/ PointerFit

PointerSpec == InitPointer /\ [][NextPointer]_vars

\* C11: in every reachable viewer state the zoom lies in [0.1, 10.0], whatever
\* the wheel deltas and whatever the bounding box fit-to-view sees (no node, one
\* node, a flat box, a wide box).
C11_ZoomInRange == zoom_min <= zoom /\ zoom <= zoom_max

\* the zoom sits on the upper clamp after fit-to-view on a single node, and on
\* the lower clamp after a wheel event with a negative factor
C11_Witness ==
    \/ out.op = "fit" /\ Len(graph.nodes) = 1 /\ zoom = zoom_max
    \/ out.op = "wheel" /\ zoom = zoom_min

\* the nodes of the active graph within click_radius of world_pos, by index
InReach(world_pos, click_radius) ==
    { i \in 0..(Len(graph.nodes) - 1) : Hit(At(graph.nodes, i), world_pos, click_radius) }

\* the square of the distance from node i of the active graph to world_pos
SquaredDistance(i, world_pos) ==
    (At(graph.nodes, i).x - world_pos.x) * (At(graph.nodes, i).x - world_pos.x)
    + (At(graph.nodes, i).y - world_pos.y) * (At(graph.nodes, i).y - world_pos.y)

\* C12 (as claimed): a click selects the node nearest to the click's world
\* position among the nodes closer to it than 10 / zoom, whatever their index
\* order, and clears the selection when there is none.
C12_ClickSelectsNearest ==
    (out.op = "click" /\ Len(graph.nodes) > 0) =>
        LET world_pos == Unwrap(out.world_pos)
            reach == InReach(world_pos, out.click_radius)
        IN IF reach = {} THEN selected_node = None
           ELSE /\ IsSome(selected_node)
                /\ Unwrap(selected_node) \in reach
                /\ \A j \in reach :
                      SquaredDistance(Unwrap(selected_node), world_pos)
                          <= SquaredDistance(j, world_pos)

\* what the click does instead: it selects the node of lowest index within the
\* radius
ClickSelectsFirst ==
    (out.op = "click" /\ Len(graph.nodes) > 0) =>
        LET reach == InReach(Unwrap(out.world_pos), out.click_radius)
        IN IF reach = {} THEN selected_node = None
           ELSE /\ IsSome(selected_node)
                /\ Unwrap(selected_node) \in reach
                /\ \A j \in reach : Unwrap(selected_node) <= j

\* where the viewer draws world point p with camera offset cam and zoom z
ScreenOf(cam, z, p) == world_to_screen([ camera_pos |-> cam, zoom |-> z ], p, rect_center)

\* a drag frame with a pointer position is being taken, and the camera offset
\* is a number (fit-to-view on no node leaves it NaN)
Dragged ==
    /\ out'.op = "drag"
    /\ IsSome(out'.delta)
    /\ camera_pos.x # NaN

\* the drag adds delta / zoom to the camera offset and leaves zoom, selection and
\* graph alone
PansByDelta ==
    /\ camera_pos' = [ x |-> FAdd(camera_pos.x, FDiv(Unwrap(out'.delta).x, zoom)),
                       y |-> FAdd(camera_pos.y, FDiv(Unwrap(out'.delta).y, zoom)) ]
    /\ zoom' = zoom
    /\ selected_node' = selected_node
    /\ graph' = graph

\* C17 (as claimed): a drag by screen delta d adds d / zoom to the camera offset
\* and leaves zoom, selection and graph unchanged, and the screen position of
\* every world point moves by exactly d, at every zoom level.
C17_DragMovesScreenExactly ==
    [][Dragged =>
          /\ PansByDelta
          /\ \A p \in Points :
                /\ ScreenOf(camera_pos', zoom', p).x - ScreenOf(camera_pos, zoom, p).x
                       = Unwrap(out'.delta).x
                /\ ScreenOf(camera_pos', zoom', p).y - ScreenOf(camera_pos, zoom, p).y
                       = Unwrap(out'.delta).y]_vars

\* a and b differ by at most the rounding of delta / zoom carried back to the
\* screen (zoom / 2 steps) plus the two roundings of the screen coordinates
NearOnScreen(a, b, z) == 2 * Scale * Abs(a - b) <= 2 * Scale + z

\* C17 (amended): a drag by screen delta d adds d / zoom to the camera offset and
\* leaves zoom, selection and graph unchanged, and the screen position of every
\* world point moves by d up to the rounding of d / zoom and of the two screen
\* coordinates, at every zoom level in [0.1, 10].
C17_DragMovesScreenWithinRounding ==
    [][Dragged =>
          /\ PansByDelta
          /\ \A p \in Points :
                /\ NearOnScreen(ScreenOf(camera_pos', zoom', p).x - ScreenOf(camera_pos, zoom, p).x,
                                Unwrap(out'.delta).x, zoom)
                /\ NearOnScreen(ScreenOf(camera_pos', zoom', p).y - ScreenOf(camera_pos, zoom, p).y,
                                Unwrap(out'.delta).y, zoom)]_vars

\* a drag that moved the pointer, at a zoom the wheel has set
C17_Witness ==
    /\ out.op = "drag"
    /\ IsSome(out.delta)
    /\ Unwrap(out.delta).x # 0
    /\ Unwrap(out.delta).y # 0
    /\ zoom \notin { Scale \div 2, zoom_min, zoom_max }
    /\ camera_pos.x # 0

-----------------------------------------------------------------------------
(* Link extraction: the scan of one document by parse_vault *)

\* A text is a sequence of characters, each a one-character string; the thirteen
\* characters of the media path prefix are kept together as one symbol.
media_prefix == "linked_media/"

\* str.starts_with("linked_media/")
StartsWithMedia(str) == Len(str) > 0 /\ str[1] = media_prefix

\* str.find(ch): the position (from 0) of the first ch, as Option
Find(str, ch) ==
    IF \E i \in 1..Len(str) : str[i] = ch
    THEN Some((CHOOSE i \in 1..Len(str) : str[i] = ch /\ \A j \in 1..(i - 1) : str[j] # ch) - 1)
    ELSE None

\* `if let Some(pos) = link_str.find(ch) { link_str = link_str[..pos] }`
CutAt(str, ch) ==
    IF IsSome(Find(str, ch)) THEN SubSeq(str, 1, Unwrap(Find(str, ch))) ELSE str

RECURSIVE TrimStart(_)
\* str.trim_start()
TrimStart(str) ==
    IF str # << >> /\ Head(str) = " " THEN TrimStart(Tail(str)) ELSE str

RECURSIVE TrimEnd(_)
\* str.trim_end()
TrimEnd(str) ==
    IF str # << >> /\ str[Len(str)] = " " THEN TrimEnd(SubSeq(str, 1, Len(str) - 1)) ELSE str

\* str.trim()
Trim(str) == TrimEnd(TrimStart(str))

\* parse_vault, body of `if let Some(link) = cap.get(1)`: the name inserted into
\* links_set for the capture link, None when nothing is inserted
LinkName(link) ==
    IF StartsWithMedia(link) THEN None
    ELSE IF Trim(CutAt(CutAt(link, "|"), "#")) = << >> THEN None
    ELSE Some(Trim(CutAt(CutAt(link, "|"), "#")))

\* the position of the first "]" of content at or after i, Len(content) + 1 if
\* there is none: where the run [^\]]+ started at i ends
RunEnd(content, i) ==
    IF \E j \in i..Len(content) : content[j] = "]"
    THEN CHOOSE j \in i..Len(content) :
            content[j] = "]" /\ \A h \in i..(j - 1) : content[h] # "]"
    ELSE Len(content) + 1

\* where "[[" must stand for a match of !?\[\[([^\]]+)\]\] that starts at i
OpenAt(content, i) == IF content[i] = "!" THEN i + 1 ELSE i

\* does !?\[\[([^\]]+)\]\] match at position i of content
MatchesAt(content, i) ==
    \E o \in { OpenAt(content, i) } :
        /\ o + 1 <= Len(content)
        /\ content[o] = "[" /\ content[o + 1] = "["
        /\ \E e \in { RunEnd(content, o + 2) } :
              /\ e > o + 2
              /\ e + 1 <= Len(content)
              /\ content[e + 1] = "]"

\* group 1 of the match at position i
CaptureAt(content, i) ==
    SubSeq(content, OpenAt(content, i) + 2, RunEnd(content, OpenAt(content, i) + 2) - 1)

RECURSIVE CapturesFrom(_, _)
\* link_regex.captures_iter(&content): group 1 of the matches found from
\* position i on, leftmost first and without overlap
CapturesFrom(content, i) ==
    IF i > Len(content) THEN << >>
    ELSE IF MatchesAt(content, i)
         THEN << CaptureAt(content, i) >>
              \o CapturesFrom(content, RunEnd(content, OpenAt(content, i) + 2) + 2)
         ELSE CapturesFrom(content, i + 1)

\* parse_vault: links_set after the loop over the captures
LinksSet(captures) ==
    { Unwrap(LinkName(captures[p])) : p \in { q \in 1..Len(captures) : IsSome(LinkName(captures[q])) } }

\* the characters between [[ and ]] of the scanned texts
TargetChars == { "a", "|", "#", " ", media_prefix }

\* the targets written between [[ and ]]: up to MaxTarget characters
Targets == UNION { [ 1..n -> TargetChars ] : n \in 0..MaxTarget }

\* the scanned texts: a first piece (nothing, a link, an embed, a link that is
\* not closed, plain text) followed by a second (nothing or a link)
Contents ==
    { first \o second :
        first \in { << >>, << "a" >> }
                  \cup { << "[", "[" >> \o t \o << "]", "]" >> : t \in Targets }
                  \cup { << "!", "[", "[" >> \o t \o << "]", "]" >> : t \in Targets }
                  \cup { << "[", "[" >> \o t \o << "]" >> : t \in Targets },
        second \in { << >> } \cup { << "[", "[" >> \o t \o << "]", "]" >> : t \in Targets } }

InitScan ==
    \E content \in Contents :
        /\ notes = EmptyVault
        /\ keys = << >>
        /\ Holds(Viewing(EmptyGraph, FALSE))
        /\ last = NoOp
        /\ budget = [ cam |-> 0, tick |-> 0 ]
        /\ out = [ op |-> "content", content |-> content ]

\* the scan of one document with the captures it finds; links is the Vec
\* collected from links_set, in the enumeration order of the HashSet
Scanned(op, content, captures) ==
    \E links \in Perms(LinksSet(captures)) :
        out' = [ op |-> op, content |-> content, captures |-> captures, links |-> links ]

\* forge-graph-viewer: parse_vault reads a document
ViewerScan ==
    /\ out.op = "content"
    /\ Scanned("viewer", out.content, CapturesFrom(out.content, 1))
    /\ UNCHANGED << notes, keys, graph, full_graph, camera_pos, zoom, dragging, drag_start,
                    selected_node, filter_orphans, velocities, simulation_running, ego_mode,
                    last, budget >>

\* forge-graph: VaultGraph::parse_vault reads a document (the same loop)
CliScan ==
    /\ out.op = "content"
    /\ Scanned("cli", out.content, CapturesFrom(out.content, 1))
    /\ UNCHANGED << notes, keys, graph, full_graph, camera_pos, zoom, dragging, drag_start,
                    selected_node, filter_orphans, velocities, simulation_running, ego_mode,
                    last, budget >>

NextScan == ViewerScan \/ CliScan

ScanSpec == InitScan /\ [][NextScan]_vars

\* the longest start of target that holds neither "|" nor "#"
BeforeSeparators(target) ==
    SubSeq(target, 1,
           CHOOSE n \in 0..Len(target) :
              /\ \A j \in 1..n : target[j] \notin { "|", "#" }
              /\ n < Len(target) => target[n + 1] \in { "|", "#" })

\* str has neither a leading nor a trailing blank
NoSurroundingSpace(str) == str = << >> \/ (str[1] # " " /\ str[Len(str)] # " ")

\* str without its leading and trailing blanks
Stripped(str) ==
    CHOOSE t \in { SubSeq(str, i, j) : i \in 1..(Len(str) + 1), j \in 0..Len(str) } :
        /\ NoSurroundingSpace(t)
        /\ \E i \in 1..(Len(str) + 1) : \E j \in (i - 1)..Len(str) :
              /\ t = SubSeq(str, i, j)
              /\ \A h \in (1..(i - 1)) \cup ((j + 1)..Len(str)) : str[h] = " "
              /\ (t = << >> => \A h \in 1..Len(str) : str[h] = " ")

\* a document has been scanned
ScanDone == out.op \in { "viewer", "cli" }

\* the names of the collection are the stripped text before the first "|" and
\* before the first "#" of the captures that do not begin with the media path
\* prefix, the empty name left out
NamesOfCaptures ==
    ScanDone =>
        Range(out.links) =
            { Stripped(BeforeSeparators(out.captures[p])) :
                p \in { q \in 1..Len(out.captures) : ~StartsWithMedia(out.captures[q]) } }
            \ { << >> }

\* the collection has no duplicates, no empty name and no name with "|", "#" or
\* a surrounding blank
NamesAreClean ==
    ScanDone =>
        /\ Len(out.links) = Cardinality(Range(out.links))
        /\ \A p \in 1..Len(out.links) :
              /\ out.links[p] # << >>
              /\ \A j \in 1..Len(out.links[p]) : out.links[p][j] \notin { "|", "#" }
              /\ NoSurroundingSpace(out.links[p])

\* the collection holds no name that begins with the media path prefix
NoMediaName ==
    ScanDone => \A p \in 1..Len(out.links) : ~StartsWithMedia(out.links[p])

\* a text without "[[" yields an empty collection
NoMarkerNoLink ==
    (ScanDone /\ ~\E i \in 1..(Len(out.content) - 1) :
                     out.content[i] = "[" /\ out.content[i + 1] = "[")
        => out.links = << >>

\* C23 (as claimed): every extracted name is the text of the captured target
\* before the first "|" and before the first "#", trimmed; the collection of a
\* document has no duplicates, no empty string, no name with "|", "#" or
\* surrounding whitespace, and no target that begins with the media path prefix;
\* a text with no link marker yields an empty collection.
C23_LinkNames == NamesOfCaptures /\ NamesAreClean /\ NoMediaName /\ NoMarkerNoLink

\* all of it but the media path prefix
LinkNamesButMedia == NamesOfCaptures /\ NamesAreClean /\ NoMarkerNoLink

=============================================================================
